---- MODULE Spec2Model ----
(***************************************************************************)
(* Model of LGraphCanvas (src/src/LGraphCanvas.ts): the pointer-driven     *)
(* interaction state machine and the selection model.                       *)
(*                                                                          *)
(* The canvas is kept as one record per step (Canvas), every method of the *)
(* class is an operator from canvas records to canvas records, and every   *)
(* event handler is one action that installs the record its operator       *)
(* returns.  CanvasPointer (./CanvasPointer) is not part of the supplied   *)
(* sources; its operators (reset, down, move, up) follow section 4.1 of    *)
(* the specification.                                                       *)
(***************************************************************************)
EXTENDS Integers, Sequences, FiniteSets, TLC

VARIABLES
  pointer,                    \* CanvasPointer session: eDown, hooks, flags
  state,                      \* LGraphCanvasState: draggingItems, draggingCanvas, readOnly,
                              \* hoveringOver
  resizing_node,              \* node being resized, or Null
  resizingGroup,              \* group being resized, or Null
  dragging_rectangle,         \* marquee rectangle, "rect" or Null
  connecting_links,           \* in-progress connections: [set, list]
  node_widget,                \* node whose widget holds the pointer, or Null
  link_over_widget,           \* widget a dragged link could connect to, or Null
  _highlight_pos,             \* where a dragged link would snap to, or Null
  _highlight_input,           \* the input slot a dragged link would connect to, or Null
  mouseOver,                  \* node.mouseOver of the node the pointer is over
  over_link_center,           \* segment whose centre marker is hovered, or Null
  display,                    \* dirty_canvas, dirty_bgcanvas, frame and the surfaces
  geom,                       \* item positions, node sizes, ds.offset and ds.scale
  renderedPaths,              \* Set<LinkSegment>: links and reroutes of the last pass
  render,                     \* links_render_mode, linkMarkerShape, visible_links
                              \* and the render cache of the link segments
  previously_dragging_canvas, \* _previously_dragging_canvas: "null" | "true" | "false"
  readOnlyBefore,             \* history: read_only before the first keydown of the space bar
  selected,                   \* item.selected, per item
  selectedItems,              \* Set<Positionable>
  selected_nodes,             \* legacy dictionary, as the set of its node keys
  highlighted_links,          \* legacy dictionary, as the set of link ids it holds
  graph,                      \* the attached graph: items and links it holds
  log,                        \* hooks the pointer has invoked since the last down
  ghost,                      \* history of the current or last gesture
  callbacks,                  \* selection callbacks fired by the last handler
  lastOp                      \* the last selection API call, for round trips

vars == <<pointer, state, resizing_node, resizingGroup, dragging_rectangle,
          connecting_links, node_widget, link_over_widget, _highlight_pos,
          _highlight_input, mouseOver,
          over_link_center, display, render, renderedPaths, geom,
          previously_dragging_canvas, readOnlyBefore, selected, selectedItems,
          selected_nodes, highlighted_links, graph, log, ghost, callbacks, lastOp>>

----------------------------------------------------------------------------
(* Bounds *)

\* pointer-move events delivered within one gesture
MaxMoves == 2

\* gestures (presses) delivered in one behaviour
MaxGestures == 2

\* gestures in a row that begin on overlapping items
MaxHitGestures == 1

\* frames drawn in one behaviour
MaxFrames == 3

\* links rendered since the background was rendered last
MaxVisibleLinks == 2
\* frame callbacks that wait in the window at once
MaxPending == 3

----------------------------------------------------------------------------
(* The graph under edit: two nodes joined by one link that passes through   *)
(* one reroute, and one group.                                              *)

Null == "null"

Nodes == {"n1", "n2"}
Groups == {"g1", "g2"}
Reroutes == {"r1", "r2"}
Items == Nodes \cup Groups \cup Reroutes

\* the reroute that Alt + press on a link creates; it is not in the graph before
NewReroute == "r2"
\* the group a paste creates
PastedGroup == "g2"
Links == {"l1", "l2"}
\* the link the host adds with node.connect; it is not in the graph before
NewLink == "l2"

\* l1 : n1.outputs[0] -> (r1) -> n2.inputs[0]
\* l2 : n1.outputs[0] -> n2.inputs[1]
LinkOrigin == [l \in Links |-> "n1"]
LinkTarget == [l \in Links |-> "n2"]
LinkTargetSlot == [l \in Links |-> IF l = "l1" THEN 0 ELSE 1]
\* output.links of the output slot, in the order the links were made
OutputLinkOrder == <<"l1", "l2">>
RerouteLinks == [r \in Reroutes |-> {"l1"}]

\* the items inside the groups: n1 and r1 lie in g1
GroupChildren == [g \in Groups |-> IF g = "g1" THEN {"n1", "r1"} ELSE {}]

\* the segments of the rendered links: each is drawn up to a reroute or up to
\* the input of a link, and has a parentId: the reroute it starts from, or
\* none when it starts from the output slot
LinkSegments == Links \cup Reroutes
ParentIds == [s \in LinkSegments |-> IF s = "l1" THEN "r1" ELSE Null]

\* origin_id of a segment
SegmentOrigin(s) ==
  IF s \in Links THEN LinkOrigin[s] ELSE LinkOrigin[CHOOSE l \in RerouteLinks[s] : TRUE]

\* nodes with block_delete set
BlockDelete == {"n2"}

----------------------------------------------------------------------------
(* Configuration read by the handlers (constructor and LiteGraph defaults) *)

allow_interaction == TRUE
pause_rendering == FALSE
\* state.shouldSetCursor
shouldSetCursor == TRUE
allow_dragcanvas == TRUE
allow_dragnodes == TRUE
allow_reconnect_links == TRUE
multi_select == FALSE
reroutesEnabled == TRUE
alt_drag_do_clone_nodes == FALSE
click_do_break_link_to == FALSE
ctrl_alt_click_do_break_link == TRUE
shift_click_do_break_link_from == FALSE
middle_click_slot_add_default_node == FALSE
\* the host has installed getWidgetLinkType
getWidgetLinkType == TRUE
always_render_background == FALSE
alwaysSnapToGrid == FALSE

\* graph.getSnapToGridSize()
SnapSize == 10

\* node.computeSize(): the least size of the node
computeSize(node) == <<14, 6>>

\* LinkRenderType; "hidden" is a value renderLink does not know
RenderModes == {"spline", "linear", "straight", "hidden"}

\* the link and the reroute that cache what renderLink computes
Segments == {"l1", "r1"}

\* what can be wrong with the link an input holds
Faults == {"ok", "noLink", "noOrigin", "noSlot"}

\* a segment that has not been rendered: no path, _pos at the origin, no angle
NoCache == [path |-> <<>>, hasPath |-> FALSE, pos |-> <<0, 0>>, angle |-> Null]

\* the end points and direction hints renderLink is called with: left to
\* right, its mirror image, top to bottom, and a link of length 100 with its
\* mirror image
Ends ==
  {[a |-> <<0, 0>>, b |-> <<128, 0>>, start_dir |-> "right", end_dir |-> "left"],
   [a |-> <<128, 0>>, b |-> <<0, 0>>, start_dir |-> "left", end_dir |-> "right"],
   [a |-> <<0, 0>>, b |-> <<0, 96>>, start_dir |-> "down", end_dir |-> "up"],
   [a |-> <<0, 0>>, b |-> <<100, 0>>, start_dir |-> "right", end_dir |-> "left"],
   [a |-> <<0, 0>>, b |-> <<-100, 0>>, start_dir |-> "left", end_dir |-> "right"]}

\* no renderLink has reached the segment since the last gesture or call
NoRender == [a |-> <<0, 0>>, b |-> <<0, 0>>, start_dir |-> "none", end_dir |-> "none",
             mode |-> "none"]

\* the denominator of the coordinates: the cached points are exact multiples
\* of a millionth
Unit == 1000000

----------------------------------------------------------------------------
(* Events *)

\* modifier keys of a pointer event; meta is folded into ctrl
Modifiers ==
  { [shift |-> FALSE, ctrl |-> FALSE, alt |-> FALSE],
    [shift |-> TRUE,  ctrl |-> FALSE, alt |-> FALSE],
    [shift |-> FALSE, ctrl |-> TRUE,  alt |-> FALSE],
    [shift |-> FALSE, ctrl |-> FALSE, alt |-> TRUE],
    [shift |-> FALSE, ctrl |-> TRUE,  alt |-> TRUE] }

NoMods == [shift |-> FALSE, ctrl |-> FALSE, alt |-> FALSE]

\* pointer.eDown when no press is recorded
NoEvent == [set |-> FALSE, button |-> 0, mods |-> NoMods, quick |-> FALSE]

\* a hook slot of the pointer: the closure installed (k) and the item it captured
NoHook == [k |-> "none", item |-> Null]

Hook(k, item) == [k |-> k, item |-> item]

\* the pointer after reset(), with no click remembered
NoPointer ==
  [eDown |-> NoEvent, dragStarted |-> FALSE, isDown |-> FALSE, isDouble |-> FALSE,
   onClick |-> NoHook, onDoubleClick |-> NoHook, onDragStart |-> NoHook,
   onDrag |-> NoHook, onDragEnd |-> NoHook, finally |-> NoHook,
   eLastDown |-> FALSE]

\* what a move or a release finds under the pointer: the node, the input and
\* the output slot of it (-1: none) and the widget of it
Over(node, input, output, widget) ==
  [node |-> node, input |-> input, output |-> output, widget |-> widget,
   centre |-> Null, corner |-> FALSE, gresize |-> FALSE]

\* the pointer is over no node
NoOver == Over(Null, -1, -1, Null)

\* no node has mouseOver set
NoMouseOver == [node |-> Null, inputId |-> Null, outputId |-> Null, overWidget |-> Null]

\* the widgets of the nodes; getWidgetLinkType() names a link type for the first
Widgets == {"w1", "w2"}
WidgetLinkable == {"w1"}

\* the arguments of draw() and whether graph._last_trigger_time is less than
\* a second old
DrawArgs == [force_canvas : BOOLEAN, force_bgcanvas : BOOLEAN, triggered : BOOLEAN]

NoDrawArgs == [force_canvas |-> FALSE, force_bgcanvas |-> FALSE, triggered |-> FALSE]

\* no hit test of a node holds
NoTests ==
  [inCollapse |-> FALSE, collapsed |-> FALSE, inResizeCorner |-> FALSE,
   outputs |-> {}, inputs |-> {}, widget |-> FALSE]

\* connecting_links = null
NoConnecting == [set |-> FALSE, list |-> <<>>]

\* what a pass over the links finds: the links whose bounding box overlaps
\* the visible area and, per link, what is wrong with the input that holds
\* it: "ok", "noLink" (the id is not in graph._links), "noOrigin" (no node
\* has origin_id) or "noSlot" (the origin node has no output origin_slot)
NoView == [visible |-> {}, fault |-> [l \in Links |-> "ok"]]

\* history of a gesture: how it ended, the hooks installed by the press, the
\* number of finally hooks installed, the moves delivered, whether an event
\* exceeded the movement threshold or the hold time, whether the press came
\* within the double-click window of a completed click, and what pointer.up
\* returned, the node under the press, the rectangle's content and the
\* modifiers of the release, the calls of graph.beforeChange and
\* graph.afterChange, whether the handler threw, the kind of the onDragStart
\* hook of the press, the calls to the nodes and the events emitted for the
\* dragged links, what lay under the release, the canvases the last draw()
\* has rendered and its arguments, and what lay under a press on overlapping
\* items
NoGhost ==
  [gestures |-> 0, ended |-> "none", installed |-> {}, finSet |-> 0, moves |-> 0,
   moved |-> FALSE, late |-> FALSE, double |-> FALSE, upResult |-> "none",
   node |-> Null, rect |-> {}, upMods |-> NoMods,
   before |-> 0, after |-> 0, threw |-> FALSE, dragKind |-> "none",
   calls |-> <<>>, upOver |-> NoOver,
   rendered |-> {}, drawArgs |-> NoDrawArgs, strokes |-> 0, pressed |-> "none",
   at |-> <<0, 0>>, tests |-> NoTests, delta |-> <<0, 0>>, ctrl |-> FALSE,
   over |-> NoOver, drawn |-> <<>>, view |-> NoView,
   renders |-> [s \in Segments |-> NoRender],
   hit |-> [node |-> Null, region |-> "none", reroute |-> Null, link |-> "none",
            segment |-> Null, group |-> Null, gregion |-> "none"]]

\* lastOp: the call, its argument, and what is known of the argument before it
NoOp == <<"none", Null, "-">>

----------------------------------------------------------------------------
(* The canvas as one record *)

Canvas ==
  [pointer |-> pointer, state |-> state, resizing_node |-> resizing_node,
   resizingGroup |-> resizingGroup, dragging_rectangle |-> dragging_rectangle,
   connecting_links |-> connecting_links, node_widget |-> node_widget,
   link_over_widget |-> link_over_widget, _highlight_pos |-> _highlight_pos,
   _highlight_input |-> _highlight_input, mouseOver |-> mouseOver,
   over_link_center |-> over_link_center,
   display |-> display, render |-> render, renderedPaths |-> renderedPaths,
   geom |-> geom,
   previously_dragging_canvas |-> previously_dragging_canvas,
   readOnlyBefore |-> readOnlyBefore,
   selected |-> selected, selectedItems |-> selectedItems,
   selected_nodes |-> selected_nodes, highlighted_links |-> highlighted_links,
   graph |-> graph, log |-> log, ghost |-> ghost, callbacks |-> callbacks]

\* the canvas a handler starts from: no selection callback has fired yet, and
\* what lay under the last press is forgotten
Enter == [Canvas EXCEPT !.callbacks = 0, !.ghost.hit = NoGhost.hit]

\* the canvas on entry of a call of the API
Call == [Enter EXCEPT !.ghost = NoGhost]

Install(c, op) ==
  \E d \in {c} :
    /\ pointer' = d.pointer
    /\ state' = d.state
    /\ resizing_node' = d.resizing_node
    /\ resizingGroup' = d.resizingGroup
    /\ dragging_rectangle' = d.dragging_rectangle
    /\ connecting_links' = d.connecting_links
    /\ node_widget' = d.node_widget
    /\ link_over_widget' = d.link_over_widget
    /\ _highlight_pos' = d._highlight_pos
    /\ _highlight_input' = d._highlight_input
    /\ mouseOver' = d.mouseOver
    /\ over_link_center' = d.over_link_center
    /\ display' = d.display
    /\ render' = d.render
    /\ renderedPaths' = d.renderedPaths
    /\ geom' = d.geom
    /\ previously_dragging_canvas' = d.previously_dragging_canvas
    /\ readOnlyBefore' = d.readOnlyBefore
    /\ selected' = d.selected
    /\ selectedItems' = d.selectedItems
    /\ selected_nodes' = d.selected_nodes
    /\ highlighted_links' = d.highlighted_links
    /\ graph' = d.graph
    /\ log' = d.log
    /\ ghost' = d.ghost
    /\ callbacks' = d.callbacks
    /\ lastOp' = op

----------------------------------------------------------------------------
(* Graph collaborator (LGraph, LGraphNode): only what the canvas reads     *)

\* the link ids on the node's slots: input.link of its input and
\* outputs.flatMap(x => x.links); these are the ids select() and deselect()
\* write to highlighted_links (a slot without link contributes no link id)
LinkKeys(c, n) ==
  {l \in c.graph.links : LinkTarget[l] = n \/ LinkOrigin[l] = n}

\* LGraph.remove / removeReroute: the item leaves the graph; a removed node
\* takes its links with it, and a reroute no link passes through is dropped
graphRemove(c, item) ==
  LET ls == IF item \in Nodes
            THEN {l \in c.graph.links : LinkOrigin[l] # item /\ LinkTarget[l] # item}
            ELSE c.graph.links
      its == {i \in c.graph.items \ {item} :
                i \in Reroutes => RerouteLinks[i] \cap ls # {}}
      \* the segment that started from a removed reroute starts from its parent
      par == IF item \in Reroutes
             THEN [s \in LinkSegments |->
                     IF s = item THEN Null
                     ELSE IF c.graph.parent[s] = item THEN c.graph.parent[item]
                     ELSE c.graph.parent[s]]
             ELSE c.graph.parent
  IN [c EXCEPT !.graph.items = its, !.graph.links = ls, !.graph.parent = par]

----------------------------------------------------------------------------
(* Selection model *)

\* select() without its early return
select_always(c, item) ==
  LET c1 == [c EXCEPT !.selected[item] = TRUE,
                      !.selectedItems = @ \cup {item}]
  IN IF item \notin Nodes THEN c1
     ELSE [c1 EXCEPT !.callbacks = @ + 1,
                     !.selected_nodes = @ \cup {item},
                     !.highlighted_links = @ \cup LinkKeys(c, item)]

select(c, item) ==
  IF c.selected[item] /\ item \in c.selectedItems THEN c
  ELSE
    LET c1 == [c EXCEPT !.selected[item] = TRUE,
                        !.selectedItems = @ \cup {item}]
    IN IF item \notin Nodes THEN c1
       ELSE [c1 EXCEPT !.callbacks = @ + 1,
                       !.selected_nodes = @ \cup {item},
                       !.highlighted_links = @ \cup LinkKeys(c, item)]

\* deselect() that keeps the highlight of a link another selected node holds
deselect_refCounted(c, item) ==
  IF ~c.selected[item] /\ item \notin c.selectedItems THEN c
  ELSE
    LET c1 == [c EXCEPT !.selected[item] = FALSE,
                        !.selectedItems = @ \ {item}]
        held == UNION {LinkKeys(c, n) : n \in c1.selectedItems \cap Nodes}
    IN IF item \notin Nodes THEN c1
       ELSE [c1 EXCEPT !.callbacks = @ + 1,
                       !.selected_nodes = @ \ {item},
                       !.highlighted_links = @ \ (LinkKeys(c, item) \ held)]

\* deselect() that leaves the legacy selected_nodes entry behind
deselect_keepLegacy(c, item) ==
  IF ~c.selected[item] /\ item \notin c.selectedItems THEN c
  ELSE [c EXCEPT !.selected[item] = FALSE,
                 !.selectedItems = @ \ {item},
                 !.callbacks = IF item \in Nodes THEN @ + 1 ELSE @,
                 !.highlighted_links =
                    IF item \in Nodes THEN @ \ LinkKeys(c, item) ELSE @]

deselect(c, item) ==
  IF ~c.selected[item] /\ item \notin c.selectedItems THEN c
  ELSE
    LET c1 == [c EXCEPT !.selected[item] = FALSE,
                        !.selectedItems = @ \ {item}]
    IN IF item \notin Nodes THEN c1
       ELSE [c1 EXCEPT !.callbacks = @ + 1,
                       !.selected_nodes = @ \ {item},
                       !.highlighted_links = @ \ LinkKeys(c, item)]

\* for (const item of S) this.select(item)
RECURSIVE selectEach(_, _)
selectEach(c, S) ==
  IF S = {} THEN c
  ELSE LET x == CHOOSE y \in S : TRUE
       IN selectEach(select(c, x), S \ {x})

\* for (const item of S) this.deselect(item)
RECURSIVE deselectEach(_, _)
deselectEach(c, S) ==
  IF S = {} THEN c
  ELSE LET x == CHOOSE y \in S : TRUE
       IN deselectEach(deselect(c, x), S \ {x})

\* deselectAll() that keeps the highlights it finds
deselectAll_keepHighlights(c, keepSelected) ==
  LET others == c.selectedItems \ {keepSelected}
  IN [c EXCEPT
        !.selected = [i \in Items |-> IF i \in others THEN FALSE ELSE @[i]],
        !.callbacks = @ + Cardinality(others),
        !.selectedItems = @ \cap {keepSelected},
        !.selected_nodes = @ \cap {keepSelected}]

\* keepSelected = Null stands for a call without argument
deselectAll(c, keepSelected) ==
  LET others == c.selectedItems \ {keepSelected}
      wasSelected == keepSelected \in c.selectedItems
      oldNode == keepSelected # Null /\ keepSelected \in c.selected_nodes
  IN [c EXCEPT
        !.selected = [i \in Items |-> IF i \in others THEN FALSE ELSE @[i]],
        !.callbacks = @ + Cardinality(others),
        !.selectedItems = IF wasSelected THEN {keepSelected} ELSE {},
        !.selected_nodes =
           IF keepSelected \in Nodes /\ oldNode THEN {keepSelected} ELSE {},
        !.highlighted_links =
           IF keepSelected \in Nodes THEN LinkKeys(c, keepSelected) ELSE {}]

\* item = Null stands for a click on nothing; e are the event's modifiers
processSelect(c, item, e, sticky) ==
  LET addModifier == e.shift
      subtractModifier == e.ctrl
      eitherModifier == addModifier \/ subtractModifier
      modifySelection == eitherModifier \/ multi_select
  IN IF item = Null
       THEN IF ~eitherModifier \/ multi_select THEN deselectAll(c, Null) ELSE c
     ELSE IF ~c.selected[item] \/ item \notin c.selectedItems
       THEN select(IF ~modifySelection THEN deselectAll(c, item) ELSE c, item)
     ELSE IF modifySelection /\ ~sticky THEN deselect(c, item)
     ELSE IF ~sticky THEN deselectAll(c, item)
     ELSE c

\* items = {Null} stands for a call without items: all positionable items
selectItems(c, items, add_to_current_selection) ==
  LET itemsToSelect == IF items = {Null} THEN c.graph.items ELSE items
      c1 == IF ~add_to_current_selection THEN deselectAll(c, Null) ELSE c
  IN selectEach(c1, itemsToSelect)

\* a marquee whose plain release does not deselect what lies outside
handleMultiSelect_keepOthers(c, e, hit) ==
  LET boxed == hit \cap (Nodes \cup Groups)
      notSelected == {x \in boxed : ~c.selected[x] \/ x \notin c.selectedItems}
      reroutes == hit \cap Reroutes
      c1 == [c EXCEPT
               !.selectedItems = @ \cup reroutes,
               !.selected = [i \in Items |-> IF i \in reroutes THEN TRUE ELSE @[i]]]
      isSelected == (boxed \ notSelected) \cup reroutes
  IN IF e.alt /\ ~e.shift THEN deselectEach(c1, isSelected)
     ELSE selectEach(c1, notSelected)

\* a marquee that classifies nodes and groups only
handleMultiSelect_noReroutes(c, e, hit) ==
  LET boxed == hit \cap (Nodes \cup Groups)
      notSelected == {x \in boxed : ~c.selected[x] \/ x \notin c.selectedItems}
      isSelected == boxed \ notSelected
  IN IF e.shift THEN selectEach(c, notSelected)
     ELSE IF e.alt THEN deselectEach(c, isSelected)
     ELSE selectEach(deselectEach(c, c.selectedItems \ isSelected), notSelected)

\* hit: the items the rectangle selects (nodes it overlaps, groups it
\* contains, reroutes whose position is inside it); e: the release modifiers
handleMultiSelect(c, e, hit) ==
  LET boxed == hit \cap (Nodes \cup Groups)
      notSelected == {x \in boxed : ~c.selected[x] \/ x \notin c.selectedItems}
      reroutes == hit \cap Reroutes
      \* selectedItems.add(reroute); reroute.selected = true
      c1 == [c EXCEPT
               !.selectedItems = @ \cup reroutes,
               !.selected = [i \in Items |-> IF i \in reroutes THEN TRUE ELSE @[i]]]
      isSelected == (boxed \ notSelected) \cup reroutes
  IN IF e.shift THEN selectEach(c1, notSelected)
     ELSE IF e.alt THEN deselectEach(c1, isSelected)
     ELSE selectEach(deselectEach(c1, c1.selectedItems \ isSelected), notSelected)

\* the loop of deleteSelected over the items it removes
RECURSIVE removeEach(_, _)
removeEach(c, S) ==
  IF S = {} THEN c
  ELSE LET x == CHOOSE y \in S : TRUE
       IN removeEach(
            [graphRemove(c, x) EXCEPT
               !.callbacks = IF x \in Nodes THEN @ + 1 ELSE @],
            S \ {x})

deleteSelected(c) ==
  LET deletable == {i \in c.selectedItems : i \notin BlockDelete}
      c1 == removeEach([c EXCEPT !.ghost.before = @ + 1], deletable)
  IN [c1 EXCEPT !.selectedItems = {}, !.selected_nodes = {},
                !.highlighted_links = {}, !.ghost.after = @ + 1]

\* what localStorage holds under "litegrapheditor_clipboard": nothing, text
\* that is no JSON, a node of a type that is not registered, or a group
Clipboards == {"empty", "malformed", "unknown", "group"}

\* _pasteFromClipboard inside the try / finally of pasteFromClipboard
pasteFromClipboard(c, data) ==
  IF data = "empty" THEN c
  ELSE
    LET c1 == [c EXCEPT !.ghost.before = @ + 1]
    IN IF data = "malformed"
       THEN [c1 EXCEPT !.ghost.threw = TRUE]   \* JSON.parse throws
       ELSE
         LET created == IF data = "group" THEN {PastedGroup} ELSE {}
             c2 == [c1 EXCEPT !.graph.items = @ \cup created,
                              !.selected = [i \in Items |->
                                              IF i \in created THEN FALSE ELSE @[i]]]
             c3 == selectItems(c2, created, FALSE)
         IN [c3 EXCEPT !.ghost.after = @ + 1]

----------------------------------------------------------------------------
(* Gesture closures: the bodies of the hooks the press handlers install    *)

\* pointer.finally = ...
setFinally(c, h) ==
  [c EXCEPT !.pointer.finally = h, !.ghost.finSet = @ + 1]

\* LGraphNode.disconnectInput / disconnectOutput: the links of the slot go,
\* and with them a reroute no link passes through any more
disconnectLinks(c, ls) ==
  LET rest == c.graph.links \ ls
  IN [c EXCEPT !.graph.items = {i \in @ : i \in Reroutes => RerouteLinks[i] \cap rest # {}},
               !.graph.links = rest]

\* connecting.output = ... / connecting.input = ... on the first entry
setConnecting(c, field) ==
  IF c.connecting_links.set /\ Len(c.connecting_links.list) > 0
  THEN IF field = "output"
       THEN [c EXCEPT !.connecting_links.list[1].output = TRUE]
       ELSE [c EXCEPT !.connecting_links.list[1].input = TRUE]
  ELSE c

\* a drag start that installs no finally hook
startDraggingItems_noFinally(c, item, sticky) ==
  LET c1 == [c EXCEPT !.ghost.before = @ + 1]
      c2 == processSelect(c1, item, c1.pointer.eDown.mods, sticky)
  IN [c2 EXCEPT !.state.draggingItems = TRUE]

startDraggingItems(c, item, sticky) ==
  LET c1 == setFinally([c EXCEPT !.ghost.before = @ + 1], Hook("items", Null))
      c2 == processSelect(c1, item, c1.pointer.eDown.mods, sticky)
  IN [c2 EXCEPT !.state.draggingItems = TRUE]

\* the closures assigned to pointer.finally
finallyHook(c, h) ==
  CASE h.k = "rect" -> [c EXCEPT !.dragging_rectangle = Null]
    [] h.k = "canvas" -> [c EXCEPT !.state.draggingCanvas = FALSE]
    [] h.k = "resizeGroup" -> [c EXCEPT !.resizingGroup = Null]
    [] h.k = "resizeNode" -> [c EXCEPT !.resizing_node = Null]
    [] h.k = "items" -> [c EXCEPT !.state.draggingItems = FALSE,
                                  !.ghost.after = @ + 1]
    [] h.k = "widget" -> [c EXCEPT !.node_widget = Null]
    [] OTHER -> c

\* the closures assigned to pointer.onClick; e: modifiers of the release
onClickHook(c, h, e) ==
  CASE h.k = "marqueeClick" -> processSelect(c, h.item, e, FALSE)
    [] h.k = "select" -> processSelect(c, h.item, c.pointer.eDown.mods, FALSE)
    [] OTHER -> c   \* collapse, slot click, link menu, widget: no canvas state

\* drag starts that keep the link on the pressed input
onDragStartHook_keepLink(c, h) ==
  CASE h.k = "rect" -> [c EXCEPT !.dragging_rectangle = "rect"]
    [] h.k = "connectOutput" -> setConnecting(c, "output")
    [] h.k = "connectInput" -> setConnecting(c, "input")
    [] h.k = "reconnect" -> setConnecting(c, "output")
    [] h.k = "dragItems" -> startDraggingItems(c, h.item, TRUE)
    [] h.k = "dragNewReroute" -> startDraggingItems(c, h.item, FALSE)
    [] h.k = "canvas" -> [c EXCEPT !.state.draggingCanvas = TRUE]
    [] h.k = "resizeGroup" -> [c EXCEPT !.resizingGroup = h.item]
    [] h.k = "resizeNode" -> [c EXCEPT !.ghost.before = @ + 1,
                                       !.resizing_node = h.item]
    [] OTHER -> c

\* the closures assigned to pointer.onDragStart
onDragStartHook(c, h) ==
  CASE h.k = "rect" -> [c EXCEPT !.dragging_rectangle = "rect"]
    [] h.k = "connectOutput" -> setConnecting(c, "output")
    [] h.k = "connectInput" -> setConnecting(c, "input")
    [] h.k = "reconnect" ->
         setConnecting(
           IF allow_reconnect_links /\ ~click_do_break_link_to
           THEN disconnectLinks(c, {l \in c.graph.links :
                                      /\ LinkTarget[l] = h.item
                                      /\ LinkTargetSlot[l] = h.slot})
           ELSE c, "output")
    [] h.k = "dragItems" -> startDraggingItems(c, h.item, TRUE)
    [] h.k = "dragNewReroute" -> startDraggingItems(c, h.item, FALSE)
    [] h.k = "canvas" -> [c EXCEPT !.state.draggingCanvas = TRUE]
    [] h.k = "resizeGroup" -> [c EXCEPT !.resizingGroup = h.item]
    [] h.k = "resizeNode" -> [c EXCEPT !.ghost.before = @ + 1,
                                       !.resizing_node = h.item]
    [] OTHER -> c

Max(a, b) == IF a >= b THEN a ELSE b

\* snapPoint(pos, snapTo): rounds both coordinates to the grid when snapTo is
\* set; Math.round rounds a half upwards
snapPoint(pos, snapTo) ==
  IF snapTo = 0 THEN pos
  ELSE <<snapTo * ((2 * pos[1] + snapTo) \div (2 * snapTo)),
         snapTo * ((2 * pos[2] + snapTo) \div (2 * snapTo))>>

\* #dirty()
dirty(c) ==
  [c EXCEPT !.display.dirty_canvas = TRUE, !.display.dirty_bgcanvas = TRUE]

\* a resize that does not clamp to the least size
onDragHook_noClamp(c, h, e) ==
  CASE h.k = "resizeNode" ->
         IF c.state.readOnly THEN c
         ELSE dirty([c EXCEPT !.geom.size[h.item] =
                       snapPoint(<<e.at[1] - c.geom.pos[h.item][1],
                                   e.at[2] - c.geom.pos[h.item][2]>>,
                                 c.display.snapToGrid)])
    [] OTHER -> c

\* the closures assigned to pointer.onDrag: the resize of a node, measured
\* from a press on the corner itself; the resize of a group and the widget
\* values are not part of the model
onDragHook(c, h, e) ==
  CASE h.k = "resizeNode" ->
         IF c.state.readOnly THEN c
         ELSE LET pos == snapPoint(<<e.at[1] - c.geom.pos[h.item][1],
                                     e.at[2] - c.geom.pos[h.item][2]>>,
                                   c.display.snapToGrid)
                  min == computeSize(h.item)
              IN dirty([c EXCEPT !.geom.size[h.item] =
                                   <<Max(min[1], pos[1]), Max(min[2], pos[2])>>])
    [] OTHER -> c

\* the closures assigned to pointer.onDragEnd; e: modifiers of the release,
\* hit: the items the marquee rectangle selects
onDragEndHook(c, h, e, hit) ==
  CASE h.k = "multiSelect" -> handleMultiSelect(c, e, hit)
    [] h.k = "resizeNodeEnd" -> [c EXCEPT !.ghost.after = @ + 1]
    [] OTHER -> c   \* #processDraggedItems: no canvas state

\* the closures assigned to pointer.onDoubleClick: emit events only
onDoubleClickHook(c, h) == c

----------------------------------------------------------------------------
(* CanvasPointer, after section 4.1 of the specification.  A hook that is  *)
(* not installed is not invoked and leaves no entry in the log.             *)

invoke(c, name, d) ==
  IF c.pointer[name].k = "none" THEN c ELSE [d EXCEPT !.log = Append(@, name)]

\* reset(): runs the finally hook if one is set, then clears the session;
\* the memory of the last completed click outlives the session
reset(c) ==
  LET c1 == invoke(c, "finally", finallyHook(c, c.pointer.finally))
  IN [c1 EXCEPT !.pointer = [NoPointer EXCEPT !.eLastDown = c1.pointer.eLastDown]]

\* down(e): resets the hooks and records the press; a press inside the
\* double-click window of a completed click sets isDouble
down(c, e) ==
  LET c1 == reset(c)
  IN [c1 EXCEPT !.pointer.eDown = e,
                !.pointer.isDouble = c1.pointer.eLastDown /\ e.quick]

\* the drag starts: onDragStart runs once and the session is drag-started
setDragStarted(c) ==
  LET c1 == invoke(c, "onDragStart", onDragStartHook(c, c.pointer.onDragStart))
  IN [c1 EXCEPT !.pointer.dragStarted = TRUE]

\* move(e): e.moved - the position is beyond the click threshold of the
\* press; e.late - the button has been held longer than the time threshold
move(c, e) ==
  IF ~c.pointer.eDown.set THEN c
  ELSE
    LET c1 == IF ~c.pointer.dragStarted /\ (e.moved \/ e.late)
              THEN setDragStarted(c) ELSE c
    IN IF c1.pointer.dragStarted
       THEN invoke(c1, "onDrag", onDragHook(c1, c1.pointer.onDrag, e))
       ELSE c1

\* the release is a double click: a completed click is remembered and this
\* press came within its window
isDoubleClick(c) == c.pointer.eLastDown /\ c.pointer.eDown.quick

\* up(e): dispatches onDragEnd, onDoubleClick or onClick, then runs finally
\* and resets; ghost.upResult is the value returned (true: it was a click)
up(c, e) ==
  IF ~c.pointer.eDown.set THEN [c EXCEPT !.ghost.upResult = "false"]
  ELSE
    LET started == c.pointer.dragStarted \/ e.moved
        c1 == IF c.pointer.dragStarted THEN c
              ELSE IF e.moved THEN setDragStarted(c)
              ELSE c
        c2 == IF started
                THEN invoke(c1, "onDragEnd",
                            onDragEndHook(c1, c1.pointer.onDragEnd, e.mods, e.hit))
              ELSE IF isDoubleClick(c1)
                THEN [invoke(c1, "onDoubleClick",
                             onDoubleClickHook(c1, c1.pointer.onDoubleClick))
                        EXCEPT !.pointer.eLastDown = FALSE]
              ELSE [invoke(c1, "onClick",
                           onClickHook(c1, c1.pointer.onClick, e.mods))
                      EXCEPT !.pointer.eLastDown = TRUE]
    IN [reset(c2) EXCEPT
          !.ghost.upResult = IF started THEN "false" ELSE "true"]

----------------------------------------------------------------------------
(* Press handlers.  hit is what the hit tests of the press find under the  *)
(* pointer: [node, region, reroute, link, group, gregion].                  *)

Connecting(node, slot, output, input, afterRerouteId) ==
  [node |-> node, slot |-> slot, output |-> output, input |-> input,
   afterRerouteId |-> afterRerouteId]

setConnectingLinks(c, list) ==
  [c EXCEPT !.connecting_links = [set |-> TRUE, list |-> list]]

\* an entry for the first link of the output slot only
outputEntries_firstOnly(ls) ==
  LET ids == SelectSeq(OutputLinkOrder, LAMBDA l : l \in ls)
  IN <<Connecting(LinkTarget[ids[1]], LinkTargetSlot[ids[1]], FALSE, TRUE, Null)>>

\* one entry per link of the output slot, in the order of output.links
outputEntries(ls) ==
  LET ids == SelectSeq(OutputLinkOrder, LAMBDA l : l \in ls)
  IN [k \in 1..Len(ids) |->
        Connecting(LinkTarget[ids[k]], LinkTargetSlot[ids[k]], FALSE, TRUE, Null)]

\* links on the node's output slot / the link on its input slot
outputLinks(c, node) == {l \in c.graph.links : LinkOrigin[l] = node}
inputLinks(c, node) == {l \in c.graph.links : LinkTarget[l] = node}

\* the number widget: click steps the value, drag slides it
processWidgetClick(c, e, node) ==
  setFinally([c EXCEPT !.pointer.onClick = Hook("widget", node),
                       !.pointer.onDrag = Hook("widget", node)],
             Hook("widget", node))

\* the hit tests of a press on a node: the collapse toggle, the collapsed
\* flag, the resize corner of a resizable node, the output and the input
\* slots whose hit boxes hold the point, and a widget
NodeTest(inCollapse, collapsed, inResizeCorner, outputs, inputs, widget) ==
  [inCollapse |-> inCollapse, collapsed |-> collapsed,
   inResizeCorner |-> inResizeCorner, outputs |-> outputs, inputs |-> inputs,
   widget |-> widget]

\* the point lies in one region of a node that is not collapsed
TestsOf(region) ==
  NodeTest(region = "collapse", FALSE, region = "resize",
           IF region = "output" THEN {0} ELSE {},
           IF region = "input" THEN {0} ELSE {}, region = "widget")

\* a loop over the slots that keeps the last match
Least_lastMatch(S) == CHOOSE i \in S : \A k \in S : i >= k

\* the first slot of the loop whose hit box holds the point
Least(S) == CHOOSE i \in S : \A k \in S : i <= k

\* output.links of the slot: the links of the model leave from slot 0
slotLinks(ls, slot) == IF slot = 0 THEN ls ELSE {}

\* input.link of the slot
slotLink(ls, slot) == {l \in ls : LinkTargetSlot[l] = slot}

processNodeClick(c, e, node, t) ==
  LET m == e.mods
      c0 == [c EXCEPT !.pointer.onClick = Hook("select", node)]
      \* the tail of the handler: widget, or node body
      body(d) ==
        IF t.widget
        THEN [processWidgetClick(d, e, node) EXCEPT !.node_widget = node]
        ELSE LET d1 == [d EXCEPT !.pointer.onDoubleClick = Hook("nodeDblClick", node)]
             IN IF ~allow_dragnodes THEN d1
                ELSE [d1 EXCEPT !.pointer.onDragStart = Hook("dragItems", node),
                                !.pointer.onDragEnd = Hook("draggedItems", Null)]
  IN
  IF t.inCollapse THEN
    body([c0 EXCEPT !.pointer.onClick = Hook("collapse", node)])
  ELSE IF t.collapsed THEN body(c0)
  ELSE IF t.inResizeCorner THEN
    setFinally([c0 EXCEPT !.display.cursor = "se-resize",
                          !.pointer.onDragStart = Hook("resizeNode", node),
                          !.pointer.onDrag = Hook("resizeNode", node),
                          !.pointer.onDragEnd = Hook("resizeNodeEnd", node)],
               Hook("resizeNode", node))
  ELSE IF t.outputs # {} THEN
    LET i == Least(t.outputs)
        links == slotLinks(outputLinks(c0, node), i)
    IN IF m.shift /\ links # {}
       THEN setConnectingLinks(c0, outputEntries(links))
       ELSE
         LET c1 == setConnectingLinks(c0, <<Connecting(node, i, TRUE, FALSE, Null)>>)
             break == IF shift_click_do_break_link_from THEN m.shift
                      ELSE ctrl_alt_click_do_break_link /\ m.ctrl /\ m.alt /\ ~m.shift
             c2 == IF break THEN disconnectLinks(c1, links) ELSE c1
         IN [c2 EXCEPT !.pointer.onDoubleClick = Hook("outputDblClick", node),
                       !.pointer.onClick = Hook("outputClick", node)]
  ELSE IF t.inputs # {} THEN
    LET i == Least(t.inputs)
        links == slotLink(inputLinks(c0, node), i)
        c1 == [c0 EXCEPT !.pointer.onDoubleClick = Hook("inputDblClick", node),
                         !.pointer.onClick = Hook("inputClick", node)]
        linked == links # {}
        link == CHOOSE l \in links : TRUE
        c2 == IF ~linked THEN c1
              ELSE IF click_do_break_link_to
                      \/ (ctrl_alt_click_do_break_link /\ m.ctrl /\ m.alt /\ ~m.shift)
                THEN disconnectLinks(c1, links)
              ELSE IF m.shift \/ allow_reconnect_links
                THEN [setConnectingLinks(c1,
                        <<Connecting(LinkOrigin[link], 0, TRUE, FALSE, Null)>>)
                      EXCEPT !.pointer.onDragStart =
                               [k |-> "reconnect", item |-> node, slot |-> i]]
              ELSE c1
    IN IF c2.pointer.onDragStart.k = "none"
       THEN [setConnectingLinks(c2, <<Connecting(node, i, FALSE, FALSE, Null)>>)
             EXCEPT !.pointer.onDragStart = Hook("connectInput", node)]
       ELSE c2
  ELSE body(c0)

\* the item a click of the marquee gesture selects: the node, else the
\* reroute, else the group whose title bar is under the pointer
clickedItem(hit) ==
  IF hit.node # Null THEN hit.node
  ELSE IF reroutesEnabled /\ hit.reroute # Null THEN hit.reroute
  ELSE IF hit.group # Null /\ hit.gregion = "header" THEN hit.group
  ELSE Null

\* a fallback that installs the hooks of the pan without starting it
panFallback_hooksOnly(c) ==
  IF c.pointer.onDragStart.k = "none" /\ c.pointer.onClick.k = "none"
     /\ c.pointer.onDrag.k = "none" /\ allow_dragcanvas
  THEN setFinally([c EXCEPT !.pointer.onClick = Hook("select", Null)],
                  Hook("canvas", Null))
  ELSE c

\* lines 2284-2293: nothing claimed the press, so it pans the canvas
panFallback(c) ==
  IF c.pointer.onDragStart.k = "none" /\ c.pointer.onClick.k = "none"
     /\ c.pointer.onDrag.k = "none" /\ allow_dragcanvas
  THEN [setFinally([c EXCEPT !.pointer.onClick = Hook("select", Null)],
                   Hook("canvas", Null))
        EXCEPT !.state.draggingCanvas = TRUE]
  ELSE c

\* a reroute that enters the graph without being spliced into the segment
createReroute_unspliced(c, pos, segment) ==
  [c EXCEPT !.graph.items = @ \cup {NewReroute},
            !.graph.created = @ \cup {NewReroute},
            !.geom.pos[NewReroute] = pos,
            !.selected[NewReroute] = FALSE]

\* LGraph.createReroute(pos, segment): a new reroute enters the graph at pos,
\* spliced into the segment: it takes the parent of the segment, and the
\* segment starts from it
createReroute(c, pos, segment) ==
  [c EXCEPT !.graph.items = @ \cup {NewReroute},
            !.graph.created = @ \cup {NewReroute},
            !.graph.parent = [@ EXCEPT ![NewReroute] = c.graph.parent[segment],
                                       ![segment] = NewReroute],
            !.geom.pos[NewReroute] = pos,
            !.selected[NewReroute] = FALSE]

\* the point of the press in graph space; the origin when the event carries
\* no point
pressPoint(e) == IF "at" \in DOMAIN e THEN e.at ELSE <<0, 0>>

\* a press handler that installs no onDoubleClick
processGroups_noDoubleClick(c, e, hit) ==
  IF hit.group # Null THEN
    IF hit.gregion \in {"resize", "both"}
    THEN setFinally(
           [c EXCEPT !.pointer.onDragStart = Hook("resizeGroup", hit.group),
                     !.pointer.onDrag = Hook("resizeGroup", hit.group)],
           Hook("resizeGroup", hit.group))
    ELSE IF hit.gregion = "header"
    THEN [c EXCEPT !.pointer.onClick = Hook("select", hit.group),
                   !.pointer.onDragStart = Hook("dragItems", hit.group),
                   !.pointer.onDragEnd = Hook("draggedItems", Null)]
    ELSE c
  ELSE c

\* a press handler that tests the header of the group before its resize corner
processGroups_headerFirst(c, e, hit) ==
  IF hit.group # Null THEN
    LET c1 ==
          IF hit.gregion \in {"header", "both"}
          THEN [c EXCEPT !.pointer.onClick = Hook("select", hit.group),
                         !.pointer.onDragStart = Hook("dragItems", hit.group),
                         !.pointer.onDragEnd = Hook("draggedItems", Null)]
          ELSE IF hit.gregion = "resize"
          THEN setFinally(
                 [c EXCEPT !.pointer.onDragStart = Hook("resizeGroup", hit.group),
                           !.pointer.onDrag = Hook("resizeGroup", hit.group)],
                 Hook("resizeGroup", hit.group))
          ELSE c
    IN [c1 EXCEPT !.pointer.onDoubleClick = Hook("groupDblClick", hit.group)]
  ELSE [c EXCEPT !.pointer.onDoubleClick = Hook("emptyDblClick", Null)]

\* lines 2213-2282: groups, else empty canvas; gregion "both": the resize
\* corner of the group lies inside its header
processGroups(c, e, hit) ==
  IF hit.group # Null THEN
    LET c1 ==
          IF hit.gregion \in {"resize", "both"}
          THEN setFinally(
                 [c EXCEPT !.pointer.onDragStart = Hook("resizeGroup", hit.group),
                           !.pointer.onDrag = Hook("resizeGroup", hit.group)],
                 Hook("resizeGroup", hit.group))
          ELSE IF hit.gregion = "header"
          THEN [c EXCEPT !.pointer.onClick = Hook("select", hit.group),
                         !.pointer.onDragStart = Hook("dragItems", hit.group),
                         !.pointer.onDragEnd = Hook("draggedItems", Null)]
          ELSE c
    IN [c1 EXCEPT !.pointer.onDoubleClick = Hook("groupDblClick", hit.group)]
  ELSE [c EXCEPT !.pointer.onDoubleClick = Hook("emptyDblClick", Null)]

\* lines 2128-2293: no node under the pointer: reroute, then link, then
\* group, then the pan fallback
processNoNode(c, e, hit) ==
  LET m == e.mods
      onStroke == hit.link \in {"stroke", "centre"}
  IN
  IF reroutesEnabled /\ hit.reroute # Null THEN
    LET link == CHOOSE l \in RerouteLinks[hit.reroute] : TRUE
        c1 == IF m.shift
              THEN [setConnectingLinks(c,
                      <<Connecting(LinkOrigin[link], 0, FALSE, FALSE, hit.reroute)>>)
                    EXCEPT !.pointer.onDragStart = Hook("connectOutput", Null)]
              ELSE c
        c2 == [c1 EXCEPT !.pointer.onClick = Hook("select", hit.reroute)]
    IN IF c2.pointer.onDragStart.k = "none"
       THEN [c2 EXCEPT !.pointer.onDragStart = Hook("dragItems", hit.reroute),
                       !.pointer.onDragEnd = Hook("draggedItems", Null)]
       ELSE c2
  ELSE IF onStroke /\ m.shift /\ ~m.alt THEN
    [setConnectingLinks(c, <<Connecting(SegmentOrigin(hit.segment), 0, FALSE, FALSE,
                                        c.graph.parent[hit.segment])>>)
     EXCEPT !.pointer.onDragStart = Hook("connectOutput", Null)]
  ELSE IF onStroke /\ reroutesEnabled /\ m.alt /\ ~m.shift THEN
    [createReroute(c, pressPoint(e), hit.segment) EXCEPT
       !.pointer.onDragStart = Hook("dragNewReroute", NewReroute),
       !.pointer.onDragEnd = Hook("draggedItems", Null)]
  ELSE IF hit.link = "centre" /\ ~(onStroke /\ (m.shift \/ m.alt)) THEN
    setFinally([c EXCEPT !.pointer.onClick = Hook("linkMenu", Null),
                         !.pointer.onDragStart = Hook("canvas", Null),
                         !.over_link_center = Null],
               Hook("canvas", Null))
  ELSE panFallback(processGroups(c, e, hit))

processPrimaryButton(c, e, hit) ==
  LET m == e.mods
  IN
  IF m.ctrl /\ ~m.alt THEN
    setFinally([c EXCEPT !.pointer.onClick = Hook("marqueeClick", clickedItem(hit)),
                         !.pointer.onDragStart = Hook("rect", Null),
                         !.pointer.onDragEnd = Hook("multiSelect", Null)],
               Hook("rect", Null))
  ELSE IF c.state.readOnly THEN
    [setFinally(c, Hook("canvas", Null)) EXCEPT !.state.draggingCanvas = TRUE]
  ELSE IF hit.node # Null /\ allow_interaction THEN
    panFallback(processNodeClick(c, e, hit.node,
                                 IF "tests" \in DOMAIN hit THEN hit.tests
                                 ELSE TestsOf(hit.region)))
  ELSE processNoNode(c, e, hit)

processMiddleButton(c, e, hit) ==
  IF allow_dragcanvas
  THEN setFinally([c EXCEPT !.pointer.onDragStart = Hook("canvas", Null)],
                  Hook("canvas", Null))
  ELSE c

\* a press handler whose right-button selection is not sticky
processMouseDown_notSticky(c, e, hit) ==
  LET c1 == down(c, e)
      c2 == [c1 EXCEPT !.pointer.isDouble = c1.pointer.isDown,
                       !.pointer.isDown = TRUE]
      isDouble == c2.pointer.isDouble
  IN IF e.button = 0 /\ ~isDouble THEN processPrimaryButton(c2, e, hit)
     ELSE IF e.button = 1 THEN processMiddleButton(c2, e, hit)
     ELSE IF (e.button = 2 \/ isDouble) /\ allow_interaction /\ ~c2.state.readOnly
       THEN IF hit.node # Null THEN processSelect(c2, hit.node, e.mods, FALSE) ELSE c2
     ELSE c2

processMouseDown(c, e, hit) ==
  LET c1 == down(c, e)
      \* pointer.isDouble = pointer.isDown && e.isPrimary; pointer.isDown = true
      c2 == [c1 EXCEPT !.pointer.isDouble = c1.pointer.isDown,
                       !.pointer.isDown = TRUE]
      isDouble == c2.pointer.isDouble
  IN IF e.button = 0 /\ ~isDouble THEN processPrimaryButton(c2, e, hit)
     ELSE IF e.button = 1 THEN processMiddleButton(c2, e, hit)
     ELSE IF (e.button = 2 \/ isDouble) /\ allow_interaction /\ ~c2.state.readOnly
       THEN IF hit.node # Null THEN processSelect(c2, hit.node, e.mods, TRUE) ELSE c2
     ELSE c2

\* a handler that does not forward the move to the pointer
processMouseMove_dropped(c, e) == c

\* the widget the first dragged link could connect to on the node
linkOverWidget(c, over) ==
  LET firstLink == c.connecting_links.list[1]
  IN IF firstLink.node = over.node THEN Null
     ELSE IF firstLink.output /\ over.input = -1 /\ over.output = -1
             /\ getWidgetLinkType /\ over.widget \in WidgetLinkable
     THEN over.widget
     ELSE Null

\* node.findConnectByTypeSlot(findInputs, node, type): the first slot of the
\* node that fits; every node of the model has slot 0 on both sides
findConnectByTypeSlot(findInputs, node) == 0

\* highlightPos and highlightInput of the first dragged link over the node:
\* the connection point it would snap to and the input it would connect to
highlightTarget(c, over) ==
  LET firstLink == c.connecting_links.list[1]
      none == [pos |-> Null, input |-> Null]
      inputAt(s) == [pos |-> <<over.node, "input", s>>, input |-> <<over.node, s>>]
      outputAt(s) == [pos |-> <<over.node, "output", s>>, input |-> Null]
  IN IF firstLink.node = over.node THEN none
     ELSE IF firstLink.output
     THEN IF over.input = -1 /\ over.output = -1
          THEN IF linkOverWidget(c, over) # Null THEN none
               ELSE inputAt(findConnectByTypeSlot(TRUE, over.node))
          ELSE IF over.input # -1 THEN inputAt(over.input)
          ELSE none
     ELSE IF firstLink.input
     THEN IF over.input = -1 /\ over.output = -1
          THEN outputAt(findConnectByTypeSlot(FALSE, over.node))
          ELSE IF over.output # -1 THEN outputAt(over.output)
          ELSE none
     ELSE none

\* updateMouseOverNodes and the hover of the node under the pointer
hoverNode(c, over) ==
  LET c1 == IF c.mouseOver.node # Null /\ c.mouseOver.node # over.node
            THEN [c EXCEPT !.mouseOver = NoMouseOver, !.link_over_widget = Null,
                           !._highlight_pos = Null, !._highlight_input = Null]
            ELSE c
      seen == [node |-> over.node, inputId |-> ToString(over.input),
               outputId |-> ToString(over.output), overWidget |-> over.widget]
  IN IF over.node = Null \/ c1.mouseOver = seen THEN c1
     ELSE IF c1.connecting_links.set /\ Len(c1.connecting_links.list) > 0
     THEN [c1 EXCEPT !.mouseOver = seen,
                     !.link_over_widget = linkOverWidget(c1, over),
                     !._highlight_pos = highlightTarget(c1, over).pos,
                     !._highlight_input = highlightTarget(c1, over).input]
     ELSE [c1 EXCEPT !.mouseOver = seen]

\* getAllNestedItems: the items and, for each group among them, the items
\* inside the group; a set, so that an item is in it once
getAllNestedItems(c, items) ==
  items \cup (c.graph.items \cap UNION {GroupChildren[g] : g \in items \cap Groups})

\* delta / ds.scale
scaled(c, delta) == <<delta[1] \div c.geom.scale, delta[2] \div c.geom.scale>>

\* item.move(deltaX, deltaY, true) for each of the items
moveItems(c, items, d) ==
  [c EXCEPT !.geom.pos = [i \in Items |->
                            IF i \in items THEN <<@[i][1] + d[1], @[i][2] + d[2]>>
                            ELSE @[i]]]

\* the items a move drags: the selection, and unless Ctrl is held the items
\* nested in its groups
draggedItems(c, e) ==
  IF e.ctrl THEN c.selectedItems ELSE getAllNestedItems(c, c.selectedItems)

\* the Link bit of a move that is not over a node: set when the segment
\* under the pointer differs from over_link_center
linkBit(c, segment) == IF c.over_link_center # segment THEN {"Link"} ELSE {}

\* underPointer of the branch that hovers: the bits of CanvasItem
underPointer(c, e) ==
  (IF e.over.node # Null
   THEN {"Node"} \cup (IF e.over.corner THEN {"ResizeSe"} ELSE {})
   ELSE linkBit(c, e.over.centre)
        \cup (IF e.over.gresize /\ ~e.ctrl /\ ~c.state.readOnly
              THEN {"ResizeSe"} ELSE {}))
  \cup (IF c.resizing_node # Null THEN {"ResizeSe"} ELSE {})

\* the segment hovered is remembered when the pointer is not over a node
hoverLink(c, e) ==
  IF e.over.node = Null /\ c.over_link_center # e.over.centre
  THEN [c EXCEPT !.over_link_center = e.over.centre,
                 !.display.dirty_bgcanvas = TRUE]
  ELSE c

\* the branches of processMouseMove after pointer.move(e): what is under the
\* pointer; c1 is the canvas pointer.move has left
moveBranches(c1, e) ==
  IF c1.dragging_rectangle # Null
  THEN [c1 EXCEPT !.display.dirty_canvas = TRUE, !.state.hoveringOver = {}]
  ELSE IF c1.resizingGroup # Null
  THEN [c1 EXCEPT !.state.hoveringOver = {"ResizeSe", "Group"}]
  ELSE IF c1.state.draggingCanvas
  THEN LET d == scaled(c1, e.delta)
       IN dirty([c1 EXCEPT !.geom.offset = <<@[1] + d[1], @[2] + d[2]>>,
                           !.state.hoveringOver = {}])
  ELSE IF allow_interaction /\ ~c1.state.readOnly
  THEN LET c2 == [hoverLink(hoverNode(c1, e.over), e)
                    EXCEPT !.state.hoveringOver = underPointer(c1, e)]
       IN IF c2.state.draggingItems
          THEN dirty(moveItems(c2, draggedItems(c2, e), scaled(c2, e.delta)))
          ELSE c2
  ELSE [c1 EXCEPT !.state.hoveringOver = {}]

\* the end of processMouseMove: canvas.style.cursor from state.hoveringOver;
\* a bitmask with neither the resize bit nor the Node bit assigns nothing
setCursor(c) ==
  IF ~shouldSetCursor THEN c
  ELSE IF c.state.hoveringOver = {} THEN [c EXCEPT !.display.cursor = ""]
  ELSE IF "ResizeSe" \in c.state.hoveringOver
  THEN [c EXCEPT !.display.cursor = "se-resize"]
  ELSE IF "Node" \in c.state.hoveringOver
  THEN [c EXCEPT !.display.cursor = "crosshair"]
  ELSE c

\* processMouseMove after pointer.move(e); c1 is the canvas pointer.move has left
afterMove(c1, e) ==
  CHOOSE d \in {setCursor(c2) : c2 \in {moveBranches(c1, e)}} : TRUE

processMouseMove(c, e) ==
  CHOOSE d \in {afterMove(c1, e) : c1 \in {move(c, e)}} : TRUE

\* a release handler that ends the session without pointer.up()
processMouseUp_resetOnly(c, e) ==
  [reset(c) EXCEPT !.ghost.upResult = "false",
                   !.pointer.isDown = FALSE, !.pointer.isDouble = FALSE]

\* a call to a node or an event emitted for a dragged link
LinkCall(op, from, to, slot) == [op |-> op, from |-> from, to |-> to, slot |-> slot]

\* the body of the loop over connecting_links: the link is released on a node
releaseLink(c, link, over) ==
  IF link.output
  THEN IF over.input # -1
       THEN [c EXCEPT !.ghost.calls =
               Append(@, LinkCall("connect", link.node, over.node, over.input))]
       ELSE IF c.link_over_widget # Null
       THEN [c EXCEPT !.ghost.calls =
               Append(@, LinkCall("connectingWidgetLink", link.node, over.node, -1)),
                      !.link_over_widget = Null]
       ELSE [c EXCEPT !.ghost.calls =
               Append(@, LinkCall("connectByType", link.node, over.node, -1))]
  ELSE IF link.input
  THEN IF over.output # -1
       THEN [c EXCEPT !.ghost.calls =
               Append(@, LinkCall("connect", over.node, link.node, over.output))]
       ELSE [c EXCEPT !.ghost.calls =
               Append(@, LinkCall("connectByTypeOutput", link.node, over.node, -1))]
  ELSE c

RECURSIVE releaseLinks(_, _, _)
releaseLinks(c, list, over) ==
  IF list = <<>> THEN c
  ELSE CHOOSE d \in {releaseLinks(c1, Tail(list), over) :
                       c1 \in {releaseLink(c, Head(list), over)}} : TRUE

\* the connecting_links branch of the release of the left button
releaseConnecting(c, over) ==
  LET list == c.connecting_links.list
      firstLink == list[1]
  IN IF over.node # Null THEN releaseLinks(c, list, over)
     ELSE IF firstLink.input \/ firstLink.output
     THEN [c EXCEPT !.ghost.calls =
             Append(@, LinkCall("empty-release", firstLink.node, Null, -1))]
     ELSE c

\* processMouseUp after pointer.up(e); c1 is the canvas pointer.up has left
afterUp(c1, button, over) ==
  IF c1.ghost.upResult = "true"
  THEN [c1 EXCEPT !.pointer.isDown = FALSE, !.pointer.isDouble = FALSE,
                  !.connecting_links = NoConnecting,
                  !.state.draggingCanvas = FALSE]
  ELSE
    LET c2 == IF button = 0
              THEN LET d2 == IF c1.connecting_links.set
                                /\ Len(c1.connecting_links.list) > 0
                             THEN releaseConnecting(c1, over)
                             ELSE c1
                   IN [d2 EXCEPT !.state.draggingItems = FALSE,
                                 !.connecting_links = NoConnecting]
              ELSE IF button = 1
              THEN [c1 EXCEPT !.state.draggingCanvas = FALSE]
              ELSE c1
    IN [c2 EXCEPT !.pointer.isDown = FALSE, !.pointer.isDouble = FALSE]

\* e.button is the button of the press that began the gesture
processMouseUp(c, e) ==
  CHOOSE d \in {afterUp(c1, c.pointer.eDown.button, e.over) : c1 \in {up(c, e)}} : TRUE

\* a cancel that drops the session without running its hooks
processMouseCancel_dropHooks(c) ==
  [c EXCEPT !.pointer = [NoPointer EXCEPT !.eLastDown = c.pointer.eLastDown]]

processMouseCancel(c) == reset(c)

clear(c) ==
  reset([c EXCEPT !.display.frame = 0,
                  !.display.dirty_canvas = TRUE,
                  !.display.dirty_bgcanvas = TRUE,
                  !.dragging_rectangle = Null,
                  !.selected_nodes = {},
                  !.connecting_links = NoConnecting,
                  !.highlighted_links = {},
                  !.state.draggingCanvas = FALSE,
                  !.node_widget = Null])

----------------------------------------------------------------------------
(* Rendering *)

setDirty(c, fgcanvas, bgcanvas) ==
  [c EXCEPT !.display.dirty_canvas = @ \/ fgcanvas,
            !.display.dirty_bgcanvas = @ \/ bgcanvas]

\* the background is rendered; the front canvas is marked for repaint
drawBackCanvas(c) ==
  [c EXCEPT !.ghost.rendered = @ \cup {"back"},
            !.render.visible_links = <<>>,
            !.display.dirty_bgcanvas = FALSE,
            !.display.dirty_canvas = TRUE]

\* a front canvas that is rendered and stays marked
drawFrontCanvas_keepDirty(c) ==
  [c EXCEPT !.ghost.rendered = @ \cup {"front"}]

\* with one canvas for both layers the background is rendered from here
drawFrontCanvas(c) ==
  LET c1 == [c EXCEPT !.display.dirty_canvas = FALSE,
                      !.display.snapToGrid =
                         IF c.display.shiftDown \/ alwaysSnapToGrid
                         THEN SnapSize ELSE 0,
                      !.ghost.rendered = @ \cup {"front"}]
  IN IF c1.display.bgIsCanvas THEN drawBackCanvas(c1) ELSE c1

drawSized(c, a) ==
  LET back == c.display.dirty_bgcanvas \/ a.force_bgcanvas
              \/ always_render_background \/ a.triggered
      c1 == IF back THEN drawBackCanvas(c) ELSE c
      c2 == IF c1.display.dirty_canvas \/ a.force_canvas
            THEN drawFrontCanvas(c1) ELSE c1
  IN [c2 EXCEPT !.display.frame = @ + 1]

\* draw(force_canvas, force_bgcanvas)
draw(c, a) ==
  IF ~c.display.sized THEN c
  ELSE CHOOSE d \in {drawSized(c0, a) : c0 \in {c}} : TRUE

\* renderFrame of startRendering: the frame is drawn, and while is_rendering
\* is set the next callback is handed to requestAnimationFrame or setTimeout
renderFrame(c) ==
  LET c1 == IF pause_rendering THEN c ELSE draw(c, NoDrawArgs)
  IN IF c1.display.is_rendering
     THEN [c1 EXCEPT !.display.pending = @ + 1]
     ELSE c1

\* startRendering()
startRendering(c) ==
  IF c.display.is_rendering THEN c
  ELSE CHOOSE d \in {renderFrame(c1) :
                       c1 \in {[c EXCEPT !.display.is_rendering = TRUE]}} : TRUE

\* stopRendering()
stopRendering(c) == [c EXCEPT !.display.is_rendering = FALSE]

Abs(x) == IF x < 0 THEN -x ELSE x

\* distance(a, b); the points of the model lie at whole distances
distance(a, b) ==
  LET q == (a[1] - b[1]) * (a[1] - b[1]) + (a[2] - b[2]) * (a[2] - b[2])
  IN CHOOSE d \in 0..(Abs(a[1] - b[1]) + Abs(a[2] - b[2])) : d * d = q

\* an offset that moves every point to the right or down
addSplineOffset_oneWay(point, direction, dist) ==
  CASE direction \in {"left", "right"} -> <<point[1] + dist \div 4, point[2]>>
    [] direction \in {"up", "down"} -> <<point[1], point[2] + dist \div 4>>
    [] OTHER -> point

\* #addSplineOffset with the factor 0.25
addSplineOffset(point, direction, dist) ==
  CASE direction = "left" -> <<point[1] - dist \div 4, point[2]>>
    [] direction = "right" -> <<point[1] + dist \div 4, point[2]>>
    [] direction = "up" -> <<point[1], point[2] - dist \div 4>>
    [] direction = "down" -> <<point[1], point[2] + dist \div 4>>
    [] OTHER -> point

\* the offset of 15 (linear) or 10 (straight) along a direction
addOffset(point, direction, l) ==
  CASE direction = "left" -> <<point[1] - l, point[2]>>
    [] direction = "right" -> <<point[1] + l, point[2]>>
    [] direction = "up" -> <<point[1], point[2] - l>>
    [] direction = "down" -> <<point[1], point[2] + l>>
    [] OTHER -> point

\* findPointOnCurve at t = k / 100, in millionths
findPointOnCurve(a, b, innerA, innerB, k) ==
  LET u == 100 - k
      c1 == u * u * u
      c2 == 3 * u * u * k
      c3 == 3 * u * k * k
      c4 == k * k * k
  IN <<c1 * a[1] + c2 * innerA[1] + c3 * innerB[1] + c4 * b[1],
       c1 * a[2] + c2 * innerA[2] + c3 * innerB[2] + c4 * b[2]>>

\* Math.atan2(y, x), kept as its two arguments
atan2(y, x) == <<"atan2", y, x>>

\* what renderLink caches in spline mode without control points
splineCache(a, b, startDir, endDir, arrow, old) ==
  LET dist == distance(a, b)
      innerB == addSplineOffset(b, endDir, dist)
      innerA == addSplineOffset(a, startDir, dist)
      pos == findPointOnCurve(a, b, innerA, innerB, 50)
      past == findPointOnCurve(a, b, innerA, innerB, 51)
  IN [path |-> <<<<"moveTo", a>>, <<"bezierCurveTo", innerA, innerB, b>>>>,
      hasPath |-> TRUE,
      pos |-> pos,
      angle |-> IF arrow THEN atan2(past[2] - pos[2], past[1] - pos[1])
                ELSE old.angle]

linearCache(a, b, startDir, endDir, arrow, old) ==
  LET innerA == addOffset(a, startDir, 15)
      innerB == addOffset(b, endDir, 15)
  IN [path |-> <<<<"moveTo", a>>, <<"lineTo", innerA>>, <<"lineTo", innerB>>,
                 <<"lineTo", b>>>>,
      hasPath |-> TRUE,
      pos |-> <<(innerA[1] + innerB[1]) * (Unit \div 2),
                (innerA[2] + innerB[2]) * (Unit \div 2)>>,
      angle |-> IF arrow THEN atan2(innerB[2] - innerA[2], innerB[1] - innerA[1])
                ELSE old.angle]

straightCache(a, b, startDir, endDir, arrow, old) ==
  LET innerA == IF startDir = "right" THEN <<a[1] + 10, a[2]>> ELSE <<a[1], a[2] + 10>>
      innerB == IF endDir = "left" THEN <<b[1] - 10, b[2]>> ELSE <<b[1], b[2] - 10>>
      midX2 == innerA[1] + innerB[1]
      diff == innerB[2] - innerA[2]
  IN [path |-> <<<<"moveTo", a>>, <<"lineTo", innerA>>,
                 <<"lineTo", <<midX2, 2 * innerA[2]>>, 2>>,
                 <<"lineTo", <<midX2, 2 * innerB[2]>>, 2>>,
                 <<"lineTo", innerB>>, <<"lineTo", b>>>>,
      hasPath |-> TRUE,
      pos |-> <<midX2 * (Unit \div 2), (innerA[2] + innerB[2]) * (Unit \div 2)>>,
      angle |-> IF ~arrow THEN old.angle
                ELSE IF Abs(diff) < 4 THEN <<"angle", 0>>
                ELSE IF diff > 0 THEN <<"angle", "PI/2">>
                ELSE <<"angle", "-PI/2">>]

\* renderLink(ctx, a, b, link, ..., start_dir, end_dir, {reroute}) with one
\* subline and no control points: the link is pushed on visible_links, the
\* segment gets a new path before the mode is looked at, and an unknown mode
\* returns before the stroke
renderLink(c, a, b, link, startDir, endDir, reroute) ==
  LET linkSegment == IF reroute # Null THEN reroute ELSE link
      mode == c.render.links_render_mode
      arrow == c.render.linkMarkerShape = "arrow"
      c1 == IF link = Null THEN c
            ELSE [c EXCEPT !.render.visible_links = Append(@, link)]
      old == IF linkSegment = Null THEN NoCache
             ELSE [c.render.cache[linkSegment] EXCEPT !.path = <<>>, !.hasPath = TRUE]
      new == CASE mode = "spline" -> splineCache(a, b, startDir, endDir, arrow, old)
               [] mode = "linear" -> linearCache(a, b, startDir, endDir, arrow, old)
               [] mode = "straight" -> straightCache(a, b, startDir, endDir, arrow, old)
               [] OTHER -> old
      c2 == IF linkSegment = Null THEN c1
            ELSE [c1 EXCEPT !.render.cache[linkSegment] = new]
  IN IF mode \in {"spline", "linear", "straight"}
     THEN [c2 EXCEPT !.ghost.strokes = 1]
     ELSE c2

\* the point of an output slot, of an input slot and of a reroute
StartPos(l) == <<LinkOrigin[l], "output", 0>>
EndPos(l) == <<LinkTarget[l], "input", LinkTargetSlot[l]>>
ReroutePos(r) == <<r, "pos", 0>>

\* no start control: the segment starts from the output slot
NoControl == [of |-> Null, to |-> <<Null, "none", 0>>]

\* LLink.getReroutes(graph, link): the reroutes of the link from the origin
\* to the target, found by following parentId from the link
RECURSIVE chainTo(_, _)
chainTo(c, segment) ==
  IF c.graph.parent[segment] = Null THEN <<>>
  ELSE Append(chainTo(c, c.graph.parent[segment]), c.graph.parent[segment])

getReroutes(c, link) == chainTo(c, link)

\* one call of renderLink from drawConnections: the link is pushed on
\* visible_links; the call and its arguments are recorded
renderCall(c, a, b, link, reroute, startControl) ==
  [c EXCEPT !.render.visible_links = Append(@, link),
            !.ghost.drawn = Append(@, [a |-> a, b |-> b, link |-> link,
                                       reroute |-> reroute,
                                       startControl |-> startControl])]

\* the body of the loop over the reroutes of a link that renders the segment
\* of every reroute, rendered before or not
drawReroute_always(c, link, reroute, startControl) ==
  LET prev == c.graph.parent[reroute]
      startPos == IF prev # Null THEN ReroutePos(prev) ELSE StartPos(link)
  IN [renderCall(c, startPos, ReroutePos(reroute), link, reroute, startControl)
        EXCEPT !.renderedPaths = @ \cup {reroute}]

\* the body of the loop over the reroutes of a link: the segment that ends at
\* the reroute is rendered unless the pass has rendered it before
drawReroute(c, link, reroute, startControl) ==
  IF reroute \in c.renderedPaths THEN c
  ELSE LET prev == c.graph.parent[reroute]
           startPos == IF prev # Null THEN ReroutePos(prev) ELSE StartPos(link)
       IN [renderCall(c, startPos, ReroutePos(reroute), link, reroute, startControl)
             EXCEPT !.renderedPaths = @ \cup {reroute}]

\* the loop over reroutes[j..] and the final segment of the link; the start
\* control of the next segment is derived from the reroute and the next point
RECURSIVE drawSegments(_, _, _, _, _)
drawSegments(c, link, reroutes, j, startControl) ==
  IF j > Len(reroutes)
  THEN renderCall(c, ReroutePos(reroutes[Len(reroutes)]), EndPos(link), link, Null,
                  startControl)
  ELSE LET nextPos == IF j < Len(reroutes) THEN ReroutePos(reroutes[j + 1])
                      ELSE EndPos(link)
       IN drawSegments(drawReroute(c, link, reroutes[j], startControl), link,
                       reroutes, j + 1, [of |-> reroutes[j], to |-> nextPos])

\* an iteration that skips an input only if its link is not in the graph
skips_linkOnly(c, link, view) ==
  \/ link \notin c.graph.links
  \/ view.fault[link] = "noLink"

\* the `continue`s of an iteration: the input holds no link, the id is not
\* in graph._links, the origin node is missing, the link lies outside the
\* visible area or the origin slot is missing
skips(c, link, view) ==
  \/ link \notin c.graph.links
  \/ view.fault[link] = "noLink"
  \/ view.fault[link] = "noOrigin"
  \/ link \notin view.visible
  \/ view.fault[link] = "noSlot"

\* one iteration of the loop over the inputs of a node
drawInput(c, link, view) ==
  IF skips(c, link, view) THEN c
  ELSE LET reroutes == getReroutes(c, link)
           c1 == IF Len(reroutes) > 0
                 THEN drawSegments(c, link, reroutes, 1, NoControl)
                 ELSE renderCall(c, StartPos(link), EndPos(link), link, Null, NoControl)
       IN [c1 EXCEPT !.renderedPaths = @ \cup {link}]

\* the inputs of the nodes of the graph that can hold a link, in the order of
\* graph._nodes and of node.inputs
RECURSIVE drawInputs(_, _, _)
drawInputs(c, links, view) ==
  IF links = <<>> THEN c
  ELSE drawInputs(drawInput(c, Head(links), view), Tail(links), view)

\* drawConnections(ctx): renderedPaths is cleared, then every input of every
\* node is looked at
drawConnections(c, view) ==
  drawInputs([c EXCEPT !.renderedPaths = {}],
             SelectSeq(OutputLinkOrder, LAMBDA l : LinkTarget[l] \in c.graph.items),
             view)

\* enableWebGL(): the background canvas is the canvas
enableWebGL(c) == [c EXCEPT !.display.bgIsCanvas = TRUE]

\* resize(width, height) to another size
resize(c, sized) ==
  IF c.display.sized = sized THEN c
  ELSE setDirty([c EXCEPT !.display.sized = sized], TRUE, TRUE)

\* processKey: keydown of the space bar
keyDownSpace(c) ==
  [c EXCEPT !.state.readOnly = TRUE,
            !.previously_dragging_canvas =
               IF @ = "null"
               THEN (IF c.state.draggingCanvas THEN "true" ELSE "false")
               ELSE @,
            !.state.draggingCanvas = c.pointer.isDown]

\* processKey: keyup of the space bar
keyUpSpace(c) ==
  [c EXCEPT !.state.readOnly = FALSE,
            !.state.draggingCanvas = (c.previously_dragging_canvas = "true"),
            !.previously_dragging_canvas = "null"]

\* processKey: keydown of Delete or Backspace outside a text field
keyDownDelete(c) == deleteSelected(c)

\* processKey: keydown of Ctrl + V
keyDownPaste(c, data) == pasteFromClipboard(c, data)

----------------------------------------------------------------------------
(* Inputs *)

NodeRegions == {"collapse", "resize", "output", "input", "widget", "body"}

Hit(node, region, reroute, link, segment, group, gregion) ==
  [node |-> node, region |-> region, reroute |-> reroute, link |-> link,
   segment |-> segment, group |-> group, gregion |-> gregion]

\* what can lie under the pointer in the graph of c: one thing, or the body
\* of a node or a reroute in front of the header of a group
Hits(c) ==
  LET ns == c.graph.items \cap Nodes
      rs == c.graph.items \cap Reroutes
      gs == c.graph.items \cap Groups
  IN {Hit(n, r, Null, "none", Null, Null, "none") : n \in ns, r \in NodeRegions}
     \cup {Hit(n, "body", Null, "none", Null, g, "header") : n \in ns, g \in gs}
     \cup {Hit(Null, "none", r, "none", Null, Null, "none") : r \in rs}
     \cup {Hit(Null, "none", r, "none", Null, g, "header") : r \in rs, g \in gs}
     \cup {Hit(Null, "none", Null, k, l, Null, "none") :
             k \in {"stroke", "centre"}, l \in c.graph.links}
     \cup {Hit(Null, "none", Null, "none", Null, g, k) :
             g \in gs, k \in {"resize", "header", "body"}}
     \cup {Hit(Null, "none", Null, "none", Null, Null, "none")}

\* the modifiers a press can carry where the handlers read them: Ctrl starts
\* the marquee whatever is hit, Alt alone is read on a link, Ctrl + Alt on a
\* slot; a press is quick only after a completed click, and the second press
\* of a double click is a plain primary press; Alt + press on a
\* link is offered while the new reroute is still unused
PressModifiers(c, button, h) ==
  {m \in Modifiers :
     /\ button = 1 => m = NoMods
     /\ button = 2 => ~m.alt /\ h.region \in {"none", "body"} /\ h.link = "none"
                      /\ h.gregion \in {"none", "header"}
     /\ (m.ctrl /\ ~m.alt) => h.region \in {"none", "body"} /\ h.link = "none"
                              /\ h.gregion \in {"none", "header"}
     /\ (m.alt /\ ~m.ctrl) => h.link # "none" /\ NewReroute \notin c.graph.created
     /\ (m.alt /\ m.ctrl) => h.region \in {"output", "input"}}

Presses(c) ==
  {p \in [e : [set : {TRUE}, button : {0, 1, 2}, mods : Modifiers,
               quick : IF c.pointer.eLastDown THEN BOOLEAN ELSE {FALSE}],
          hit : Hits(c)] :
     /\ p.e.mods \in PressModifiers(c, p.e.button, p.hit)
     /\ p.e.quick => p.e.button = 0 /\ p.e.mods = NoMods
     /\ p.e.button = 1 => p.hit.node = Null /\ p.hit.reroute = Null
                          /\ p.hit.link = "none" /\ p.hit.group = Null}

\* the rectangles a marquee can end on: the sets of items they select
Rectangles(c) ==
  {R \cap c.graph.items :
     R \in {{}, {"n1"}, {"n2", "r1"}, {"n1", "n2", "g1"}, Items}}

\* releases with no modifier held; the rectangle of a marquee is empty or
\* holds the two nodes
Releases(c) ==
  [mods : {NoMods},
   moved : IF c.pointer.dragStarted THEN {FALSE} ELSE BOOLEAN,
   hit : IF c.pointer.onDragEnd.k = "multiSelect"
         THEN {{}, Nodes \cap c.graph.items} ELSE {{}},
   over : {NoOver}]

\* what can lie under the pointer while a link is dragged: nothing, or the
\* input slot, the output slot, a widget or the body of a node
Overs(c) ==
  {NoOver} \cup
  UNION {{Over(n, 0, -1, Null), Over(n, -1, 0, Null), Over(n, -1, -1, Null)}
           \cup {Over(n, -1, -1, w) : w \in Widgets} : n \in c.graph.items \cap Nodes}

\* the releases of a dragged link: what lies under the pointer is read only
\* while connecting_links holds links
LinkReleases(c) ==
  [mods : {NoMods},
   moved : IF c.pointer.dragStarted THEN {FALSE} ELSE BOOLEAN,
   hit : {{}},
   over : IF c.connecting_links.set THEN Overs(c) ELSE {NoOver}]

\* the releases of a marquee: the modifiers held and the rectangle's content
MarqueeReleases(c) ==
  [mods : {m \in Modifiers : ~(m.ctrl /\ m.alt)},
   moved : IF c.pointer.dragStarted THEN {FALSE} ELSE BOOLEAN,
   hit : Rectangles(c),
   over : {NoOver}]

\* the slots of a node
Slots == {0, 1}

\* the hit tests that can hold together at one point of a node; the collapse
\* toggle lies in the title bar, apart from the other regions
NodeTests ==
  {NodeTest(TRUE, k, FALSE, {}, {}, FALSE) : k \in BOOLEAN}
  \cup {NodeTest(FALSE, FALSE, r, o, i, w) :
          r \in BOOLEAN, o \in SUBSET Slots, i \in SUBSET Slots, w \in BOOLEAN}
  \cup {NodeTest(FALSE, TRUE, r, o, i, FALSE) :
          r \in BOOLEAN, o \in {{}, {0}}, i \in {{}, {0}}}

\* moves: the distance and the hold time are read only until the drag has
\* started
Moves(c) ==
  [moved : IF c.pointer.dragStarted THEN {FALSE} ELSE BOOLEAN,
   late : IF c.pointer.dragStarted THEN {FALSE} ELSE BOOLEAN,
   over : {NoOver}, at : {<<0, 0>>}, delta : {<<0, 0>>}, ctrl : {FALSE}]

\* the moves of a drag: the pointer has travelled by delta since the last
\* move; Ctrl makes a difference while items are dragged and a group is
\* selected
DragMoves(c) ==
  [moved : IF c.pointer.dragStarted THEN {FALSE} ELSE {TRUE},
   late : {FALSE},
   over : {NoOver}, at : {<<0, 0>>}, delta : {<<4, -2>>},
   ctrl : IF c.state.draggingItems /\ c.selectedItems \cap Groups # {}
          THEN BOOLEAN ELSE {FALSE}]

\* what a move can find under the pointer: nothing, the centre marker of a
\* link, the resize corner of a group, or the node n1, in its resize corner or
\* not
HoverOvers(c) ==
  {NoOver, [NoOver EXCEPT !.gresize = TRUE]}
  \cup {[NoOver EXCEPT !.centre = s] : s \in c.graph.links}
  \cup {[Over("n1", -1, -1, Null) EXCEPT !.corner = k] : k \in BOOLEAN}

HoverMoves(c) ==
  [moved : {FALSE}, late : {FALSE}, over : HoverOvers(c), at : {<<0, 0>>},
   delta : {<<0, 0>>}, ctrl : {FALSE}]

\* ds.scale: the scales of the view
Scales == {1, 2}

\* the moves of a resize: where the pointer is
ResizeMoves(c) ==
  [moved : IF c.pointer.dragStarted THEN {FALSE} ELSE {TRUE},
   late : {FALSE},
   over : {NoOver}, at : {<<-5, 3>>, <<8, 26>>, <<25, 15>>},
   delta : {<<0, 0>>}, ctrl : {FALSE}]

\* the moves of a dragged link
LinkMoves(c) ==
  [moved : IF c.pointer.dragStarted THEN {FALSE} ELSE BOOLEAN,
   late : {FALSE},
   over : Overs(c), at : {<<0, 0>>}, delta : {<<0, 0>>}, ctrl : {FALSE}]

\* everything that can lie under one point: a node region, a reroute, a link
\* and a group, in any combination
AllHits(c) ==
  LET ns == c.graph.items \cap Nodes
      rs == c.graph.items \cap Reroutes
      gs == c.graph.items \cap Groups
      nodeParts == {<<Null, "none">>} \cup (ns \X NodeRegions)
      linkParts == {<<"none", Null>>} \cup ({"stroke", "centre"} \X c.graph.links)
      groupParts == {<<Null, "none">>} \cup (gs \X {"resize", "both", "header", "body"})
  IN {Hit(n[1], n[2], r, l[1], l[2], g[1], g[2]) :
        n \in nodeParts, r \in rs \cup {Null}, l \in linkParts, g \in groupParts}

hooksInstalled(c) ==
  {name \in {"onClick", "onDoubleClick", "onDragStart", "onDrag", "onDragEnd"} :
     c.pointer[name].k # "none"}

----------------------------------------------------------------------------
(* Initial state: the canvas after construction, with the graph attached   *)

Init ==
  /\ pointer = NoPointer
  /\ state = [draggingItems |-> FALSE, draggingCanvas |-> FALSE, readOnly |-> FALSE,
              hoveringOver |-> {}]
  /\ over_link_center = Null
  /\ resizing_node = Null
  /\ resizingGroup = Null
  /\ dragging_rectangle = Null
  /\ connecting_links = NoConnecting
  /\ node_widget = Null
  /\ link_over_widget = Null
  /\ _highlight_pos = Null
  /\ _highlight_input = Null
  /\ mouseOver = NoMouseOver
  /\ render = [links_render_mode |-> "spline", linkMarkerShape |-> "circle",
               visible_links |-> <<>>, cache |-> [s \in Segments |-> NoCache]]
  /\ renderedPaths = {}
  /\ display = [dirty_canvas |-> TRUE, dirty_bgcanvas |-> TRUE, frame |-> 0,
                bgIsCanvas |-> FALSE, sized |-> TRUE,
                shiftDown |-> FALSE, snapToGrid |-> 0, cursor |-> "",
                is_rendering |-> FALSE, pending |-> 0]
  /\ geom = [pos |-> [i \in Items |-> <<0, 0>>],
             size |-> [n \in Nodes |-> computeSize(n)],
             offset |-> <<0, 0>>, scale |-> 1]
  /\ previously_dragging_canvas = "null"
  /\ readOnlyBefore = FALSE
  /\ selected = [i \in Items |-> FALSE]
  /\ selectedItems = {}
  /\ selected_nodes = {}
  /\ highlighted_links = {}
  /\ graph = [items |-> Items \ {NewReroute, PastedGroup},
              links |-> Links \ {NewLink}, parent |-> ParentIds,
              created |-> {}]
  /\ log = <<>>
  /\ ghost = NoGhost
  /\ callbacks = 0
  /\ lastOp = NoOp

----------------------------------------------------------------------------
(* Event handlers.  The browser delivers a press only while no button is   *)
(* down, and moves, a release or a cancel to the gesture a press began.    *)

Idle == ~pointer.eDown.set

\* what the press is on, as far as the double click reads it: a group with
\* no node, reroute or link above it, or nothing at all
Pressed(hit) ==
  IF hit.node # Null \/ hit.reroute # Null \/ hit.link # "none" THEN "item"
  ELSE IF hit.group # Null THEN "group"
  ELSE "empty"

\* the press p is delivered
Press(p) ==
  LET c0 == [Enter EXCEPT !.log = <<>>,
                          !.ghost = [NoGhost EXCEPT !.ended = "active",
                                                    !.double = p.e.quick,
                                                    !.pressed = Pressed(p.hit),
                                                    !.node = p.hit.node,
                                                    !.gestures = ghost.gestures + 1]]
  IN \E c1 \in {processMouseDown(c0, p.e, p.hit)} :
       Install([c1 EXCEPT !.ghost.installed = hooksInstalled(c1),
                          !.ghost.dragKind = c1.pointer.onDragStart.k], NoOp)

MouseDown ==
  /\ Idle
  /\ ghost.gestures < MaxGestures
  /\ \E p \in Presses(Canvas) : Press(p)

\* a primary press on a point where items overlap; Ctrl alone and the read-only
\* mode take the press before the hit tests
PressAny ==
  /\ Idle
  /\ ghost.gestures < MaxHitGestures
  /\ \E h \in AllHits(Canvas), m \in {x \in Modifiers : ~(x.ctrl /\ ~x.alt)} :
       LET e == [set |-> TRUE, button |-> 0, mods |-> m, quick |-> FALSE]
           c0 == [Enter EXCEPT !.log = <<>>,
                               !.ghost = [NoGhost EXCEPT !.ended = "active",
                                                         !.node = h.node,
                                                         !.hit = h,
                                                         !.gestures = ghost.gestures + 1]]
       IN \E c1 \in {processMouseDown(c0, e, h)} :
            Install([c1 EXCEPT !.ghost.installed = hooksInstalled(c1),
                               !.ghost.dragKind = c1.pointer.onDragStart.k], NoOp)

Move(e) ==
  LET c1 == processMouseMove(Enter, e)
  IN Install([c1 EXCEPT !.ghost.moves = @ + 1,
                        !.ghost.moved = @ \/ e.moved,
                        !.ghost.late = @ \/ e.late], NoOp)

MouseMove ==
  /\ ~Idle
  /\ ghost.moves < MaxMoves
  /\ \E e \in Moves(Canvas) : Move(e)

Release(e) ==
  LET c1 == processMouseUp(Enter, e)
  IN Install([c1 EXCEPT !.ghost.ended = "up",
                        !.ghost.pressed = "none",
                        !.ghost.tests = NoTests,
                        !.ghost.moved = @ \/ e.moved,
                        !.ghost.rect = e.hit,
                        !.ghost.upMods = e.mods,
                        !.ghost.upOver = e.over], NoOp)

MouseUp ==
  /\ ~Idle
  /\ \E e \in Releases(Canvas) : Release(e)

\* a press of the primary button with Ctrl alone: the marquee
PressMarquee ==
  /\ Idle
  /\ ghost.gestures < MaxGestures
  /\ \E p \in Presses(Canvas) :
       /\ p.e.button = 0 /\ p.e.mods.ctrl /\ ~p.e.mods.alt
       /\ Press(p)

MarqueeUp ==
  /\ ~Idle
  /\ \E e \in MarqueeReleases(Canvas) : Release(e)

MouseCancel ==
  /\ ~Idle
  /\ Install([processMouseCancel(Enter) EXCEPT !.ghost.ended = "cancel",
                                               !.ghost.pressed = "none",
                                               !.ghost.tests = NoTests], NoOp)

KeyDownSpace ==
  Install([keyDownSpace(Enter) EXCEPT !.readOnlyBefore =
             IF previously_dragging_canvas = "null" THEN state.readOnly ELSE @],
          NoOp)

\* the host sets read_only before the first gesture, while no key is held
SetReadOnly ==
  /\ ghost.gestures = 0
  /\ previously_dragging_canvas = "null"
  /\ \E value \in BOOLEAN :
       /\ value # state.readOnly
       /\ Install([Enter EXCEPT !.state.readOnly = value], <<"read_only", Null, "-">>)

KeyUpSpace ==
  /\ previously_dragging_canvas # "null"
  /\ Install(keyUpSpace(Enter), NoOp)

\* Delete and Ctrl + V, pressed while the canvas is read-only; the keys count
\* no call of graph.beforeChange for the gesture
KeyDelete ==
  /\ state.readOnly
  /\ \E c1 \in {keyDownDelete(Enter)} :
       Install([c1 EXCEPT !.ghost.before = ghost.before, !.ghost.after = ghost.after],
               NoOp)

KeyPaste ==
  \E data \in Clipboards :
    /\ state.readOnly
    /\ data = "group" => PastedGroup \notin graph.items
    /\ \E c1 \in {keyDownPaste(Enter, data)} :
         Install([c1 EXCEPT !.ghost.before = ghost.before,
                            !.ghost.after = ghost.after,
                            !.ghost.threw = ghost.threw], NoOp)

SetDirty ==
  \E fg, bg \in BOOLEAN :
    Install(setDirty(Call, fg, bg), <<"setDirty", Null, "-">>)

Draw ==
  /\ display.frame < MaxFrames
  /\ \E a \in DrawArgs :
       Install(draw([Call EXCEPT !.ghost.drawArgs = a], a), <<"draw", Null, "-">>)

EnableWebGL ==
  /\ ~display.bgIsCanvas
  /\ Install(enableWebGL(Call), <<"enableWebGL", Null, "-">>)

Resize ==
  \E sized \in BOOLEAN : Install(resize(Call, sized), <<"resize", Null, "-">>)

\* startRendering(), called by the host
StartRendering ==
  /\ display.frame < MaxFrames
  /\ display.pending < MaxPending
  /\ Install(startRendering(Call), <<"startRendering", Null, "-">>)

\* stopRendering(), called by the host
StopRendering == Install(stopRendering(Call), <<"stopRendering", Null, "-">>)

\* the window runs a frame callback that was waiting
RenderFrame ==
  /\ display.pending > 0
  /\ display.frame < MaxFrames
  /\ Install(renderFrame([Call EXCEPT !.display.pending = @ - 1]),
             <<"renderFrame", Null, "-">>)

\* the host sets links_render_mode
SetRenderMode ==
  \E m \in RenderModes :
    /\ m # render.links_render_mode
    /\ Install([Call EXCEPT !.render.links_render_mode = m],
               <<"links_render_mode", Null, "-">>)

\* the host sets linkMarkerShape
SetMarkerShape ==
  \E m \in {"circle", "arrow"} :
    /\ m # render.linkMarkerShape
    /\ Install([Call EXCEPT !.render.linkMarkerShape = m],
               <<"linkMarkerShape", Null, "-">>)

\* renderLink for the link, for its segment that ends at the reroute, or for
\* the link that is being dragged
RenderLink ==
  /\ Len(render.visible_links) < MaxVisibleLinks
  /\ \E e \in Ends, link \in {Null, "l1"}, reroute \in {Null, "r1"} :
       /\ reroute # Null => link # Null
       /\ \E seg \in {IF reroute # Null THEN reroute ELSE link} :
            \E c0 \in {IF seg = Null THEN Call
                        ELSE [Call EXCEPT !.ghost.renders =
                                [ghost.renders EXCEPT ![seg] =
                                   [a |-> e.a, b |-> e.b, start_dir |-> e.start_dir,
                                    end_dir |-> e.end_dir,
                                    mode |-> render.links_render_mode]]]} :
              Install(renderLink(c0, e.a, e.b, link, e.start_dir, e.end_dir, reroute),
                      <<"renderLink", seg, "-">>)

\* the views of a pass: any of the links of the graph is visible, and any
\* input may hold a link whose id, origin node or origin slot is missing
Views(c) ==
  {v \in [visible : SUBSET c.graph.links, fault : [Links -> Faults]] :
     \A l \in Links : IF l \in c.graph.links THEN v.fault[l] # "noLink"
                       ELSE v.fault[l] \in {"ok", "noLink"}}

\* the links of a background pass: visible_links is emptied and
\* drawConnections renders the links
DrawConnections ==
  \E view \in Views(Canvas) :
    \E c1 \in {drawConnections([Call EXCEPT !.render.visible_links = <<>>,
                                            !.ghost.view = view], view)} :
      Install(c1, <<"drawConnections", Null, "-">>)

\* node.connect(slot, node, slot, afterRerouteId), called at the release of a
\* link dragged from a reroute or from the output: the second link leaves
\* output 0 of n1 and passes through the reroutes up to afterRerouteId
ConnectAfter ==
  /\ NewLink \notin graph.links
  /\ \E r \in (graph.items \cap Reroutes) \cup {Null} :
       Install([Call EXCEPT !.graph.links = @ \cup {NewLink},
                            !.graph.parent[NewLink] = r],
               <<"connect", r, "-">>)

\* graph.createReroute(pos, segment), called by the host: a reroute is spliced
\* into a segment of a link of the graph
CreateReroute ==
  /\ NewReroute \notin graph.items
  /\ \E segment \in graph.links \cup (graph.items \cap Reroutes) :
       Install(createReroute(Call, <<0, 0>>, segment),
               <<"createReroute", segment, "-">>)

\* node.connect, called by the host between gestures: a second link leaves
\* output 0 of n1
Connect ==
  /\ Idle
  /\ NewLink \notin graph.links
  /\ Install([Call EXCEPT !.graph.links = @ \cup {NewLink}],
             <<"connect", Null, "-">>)

\* the modifiers of a press on a slot: none or Shift
SlotModifiers == {NoMods, [NoMods EXCEPT !.shift = TRUE]}

\* a primary press on a point of a node where any of its regions overlap
PressNode ==
  /\ Idle
  /\ \E n \in graph.items \cap Nodes, t \in NodeTests, m \in SlotModifiers :
       LET e == [set |-> TRUE, button |-> 0, mods |-> m, quick |-> FALSE]
           h == [node |-> n, region |-> "body", reroute |-> Null, link |-> "none",
                 segment |-> Null, group |-> Null, gregion |-> "none", tests |-> t]
           c0 == [Enter EXCEPT !.log = <<>>,
                               !.ghost = [NoGhost EXCEPT !.ended = "active",
                                                         !.node = n,
                                                         !.tests = t,
                                                         !.gestures = 1]]
       IN \E c1 \in {processMouseDown(c0, e, h)} :
            Install([c1 EXCEPT !.ghost.installed = hooksInstalled(c1),
                               !.ghost.dragKind = c1.pointer.onDragStart.k], NoOp)

\* the press on the node is released or cancelled; the history of the
\* gesture ends with it
NodeRelease ==
  /\ ~Idle
  /\ \E e \in Releases(Canvas) :
       Install([processMouseUp(Enter, e) EXCEPT !.ghost = NoGhost, !.log = <<>>], NoOp)

NodeCancel ==
  /\ ~Idle
  /\ Install([processMouseCancel(Enter) EXCEPT !.ghost = NoGhost, !.log = <<>>], NoOp)

\* a primary press, plain or with Shift, on what can be dragged or panned:
\* the body of n1, the header or the body of g1, or the empty canvas
PressItem ==
  /\ Idle
  /\ ghost.gestures < MaxGestures
  /\ \E p \in Presses(Canvas) :
       /\ p.e.button = 0 /\ ~p.e.quick /\ ~p.e.mods.ctrl /\ ~p.e.mods.alt
       /\ p.hit.region \in {"none", "body"} /\ p.hit.link = "none"
       /\ p.hit.node \in {Null, "n1"} /\ p.hit.reroute = Null
       /\ p.hit.node = Null \/ p.hit.group = Null
       /\ p.hit.gregion \in {"none", "header", "body"}
       /\ LET c0 == [Enter EXCEPT !.log = <<>>,
                                  !.ghost = [NoGhost EXCEPT !.ended = "active",
                                                            !.pressed = Pressed(p.hit),
                                                            !.node = p.hit.node,
                                                            !.hit = p.hit,
                                                            !.gestures = ghost.gestures + 1]]
          IN \E c1 \in {processMouseDown(c0, p.e, p.hit)} :
               Install([c1 EXCEPT !.ghost.installed = hooksInstalled(c1),
                                  !.ghost.dragKind = c1.pointer.onDragStart.k], NoOp)

DragMove ==
  /\ ~Idle
  /\ ghost.moves < MaxMoves
  /\ \E e \in DragMoves(Canvas) :
       \E c1 \in {processMouseMove(Enter, e)} :
         Install([c1 EXCEPT !.ghost.moves = @ + 1,
                            !.ghost.moved = @ \/ e.moved,
                            !.ghost.delta = e.delta,
                            !.ghost.ctrl = e.ctrl], NoOp)

\* a pointer move, with the button up or down
HoverMove ==
  \E e \in HoverMoves(Canvas) :
    \E c1 \in {processMouseMove(Enter, e)} :
      Install([c1 EXCEPT !.ghost.over = e.over], <<"mousemove", Null, "-">>)

\* processMouseWheel before the first gesture: the scale of the view changes
Zoom ==
  /\ ghost.gestures = 0
  /\ allow_dragcanvas
  /\ \E k \in Scales \ {geom.scale} :
       Install([Call EXCEPT !.geom.scale = k], <<"wheel", Null, "-">>)

\* the points of a press on a stroke
StrokePoints == {<<0, 0>>, <<40, 20>>}

\* a primary press on the stroke of a segment of a link, away from its centre
\* marker, with any of Shift and Alt held; no node, reroute or group lies
\* under the point
PressStroke ==
  /\ Idle
  /\ ghost.gestures < MaxGestures
  /\ \E seg \in graph.links \cup (graph.items \cap Reroutes),
        shift \in BOOLEAN, alt \in BOOLEAN, at \in StrokePoints :
       /\ alt => NewReroute \notin graph.created
       /\ LET e == [set |-> TRUE, button |-> 0,
                    mods |-> [NoMods EXCEPT !.shift = shift, !.alt = alt],
                    quick |-> FALSE, at |-> at]
              h == Hit(Null, "none", Null, "stroke", seg, Null, "none")
              c0 == [Enter EXCEPT !.log = <<>>,
                                  !.ghost = [NoGhost EXCEPT !.ended = "active",
                                                            !.hit = h,
                                                            !.at = at,
                                                            !.gestures = ghost.gestures + 1]]
          IN \E c1 \in {processMouseDown(c0, e, h)} :
               Install([c1 EXCEPT !.ghost.installed = hooksInstalled(c1),
                                  !.ghost.dragKind = c1.pointer.onDragStart.k], NoOp)

\* a primary press on the resize corner of a node
PressResize ==
  /\ Idle
  /\ ghost.gestures < MaxHitGestures
  /\ \E p \in Presses(Canvas) :
       /\ p.e.button = 0 /\ p.e.mods = NoMods /\ ~p.e.quick
       /\ p.hit.node = "n1" /\ p.hit.region = "resize" /\ p.hit.group = Null
       /\ Press(p)

ResizeMove ==
  /\ ~Idle
  /\ ghost.moves < MaxMoves
  /\ \E e \in ResizeMoves(Canvas) :
       \E c1 \in {processMouseMove(Enter, e)} :
         Install([c1 EXCEPT !.ghost.moves = @ + 1,
                            !.ghost.moved = @ \/ e.moved,
                            !.ghost.at = e.at], NoOp)

\* processKey for the Shift key, down or up: #shiftDown follows the event
KeyShift ==
  \E shiftKey \in BOOLEAN :
    /\ shiftKey # display.shiftDown
    /\ Install([Enter EXCEPT !.display.shiftDown = shiftKey], NoOp)

\* a frame is drawn while the gesture goes on
Frame ==
  /\ display.frame < MaxFrames
  /\ Install(draw(Enter, NoDrawArgs), NoOp)

\* clear(), called by the host between gestures
Clear ==
  /\ Idle
  /\ Install(clear(Enter), <<"clear", Null, "-">>)

\* pointer events only
Next ==
  \/ MouseDown
  \/ MouseMove
  \/ MouseUp
  \/ MouseCancel

Spec == Init /\ [][Next]_vars

\* a primary press that begins the drag of a link: on a slot of a node, or on
\* the stroke of a link with Shift
PressLink ==
  /\ Idle
  /\ ghost.gestures < MaxGestures
  /\ \E p \in Presses(Canvas) :
       /\ p.e.button = 0
       /\ p.hit.region \in {"output", "input"} \/ p.hit.link = "stroke"
       /\ Press(p)

LinkMove ==
  /\ ~Idle
  /\ ghost.moves < MaxMoves
  /\ \E e \in LinkMoves(Canvas) : Move(e)

LinkUp ==
  /\ ~Idle
  /\ \E e \in LinkReleases(Canvas) : Release(e)

\* gestures that drag links
NextLink ==
  \/ PressLink
  \/ LinkMove
  \/ LinkUp
  \/ MouseCancel

SpecLink == Init /\ [][NextLink]_vars

\* marquee gestures
NextMarquee ==
  \/ PressMarquee
  \/ MouseMove
  \/ MarqueeUp
  \/ MouseCancel

SpecMarquee == Init /\ [][NextMarquee]_vars

\* primary presses on overlapping items, released or cancelled
NextHit ==
  \/ PressAny
  \/ MouseUp
  \/ MouseCancel

SpecHit == Init /\ [][NextHit]_vars

\* pointer events interleaved with the space bar
NextKeys ==
  \/ MouseDown
  \/ MouseMove
  \/ MouseUp
  \/ MouseCancel
  \/ KeyDownSpace
  \/ KeyUpSpace

SpecKeys == Init /\ [][NextKeys]_vars

\* a press of the primary button without Shift and Alt
PressPrimary ==
  /\ Idle
  /\ ghost.gestures < MaxGestures
  /\ \E p \in Presses(Canvas) :
       /\ p.e.button = 0 /\ ~p.e.mods.shift /\ ~p.e.mods.alt
       /\ Press(p)

\* presses and releases of the primary button interleaved with the space
\* bar, Delete and Ctrl + V
NextRead ==
  \/ PressPrimary
  \/ LinkUp
  \/ KeyDownSpace
  \/ KeyUpSpace
  \/ KeyDelete
  \/ KeyPaste

SpecRead == Init /\ [][NextRead]_vars

\* drags of items and of the view, with the space bar pressed and released
\* at any time
NextDrag ==
  \/ PressItem
  \/ DragMove
  \/ MouseUp
  \/ MouseCancel
  \/ KeyDownSpace
  \/ KeyUpSpace
  \/ Zoom

SpecDrag == Init /\ [][NextDrag]_vars

\* the same drags without the space bar
NextDragPointer ==
  \/ PressItem
  \/ DragMove
  \/ MouseUp
  \/ MouseCancel
  \/ Zoom

SpecDragPointer == Init /\ [][NextDragPointer]_vars

\* the pointer hovers over the canvas, between and during presses on the
\* empty canvas and on items, with the space bar pressed and released
NextHover ==
  \/ HoverMove
  \/ PressItem
  \/ MouseUp
  \/ KeyDownSpace
  \/ KeyUpSpace

SpecHover == Init /\ [][NextHover]_vars

\* presses on the strokes of the links
NextStroke ==
  \/ PressStroke
  \/ MouseMove
  \/ MouseUp
  \/ MouseCancel

SpecStroke == Init /\ [][NextStroke]_vars

\* presses on the overlapping regions of a node
NextNode ==
  \/ Connect
  \/ PressNode
  \/ NodeRelease
  \/ NodeCancel

SpecNode == Init /\ [][NextNode]_vars

\* passes over the links of graphs with one or two links and one or two
\* reroutes, shared or not
NextConnections ==
  \/ DrawConnections
  \/ ConnectAfter
  \/ CreateReroute

SpecConnections == Init /\ [][NextConnections]_vars

\* the resize of a node, with the grid switched by the Shift key and the
\* canvas made read-only by the space bar
NextResize ==
  \/ PressResize
  \/ ResizeMove
  \/ MouseUp
  \/ MouseCancel
  \/ KeyShift
  \/ Frame
  \/ KeyDownSpace
  \/ KeyUpSpace

SpecResize == Init /\ [][NextResize]_vars

\* links rendered in any mode
NextRender ==
  \/ SetRenderMode
  \/ SetMarkerShape
  \/ RenderLink

SpecRender == Init /\ [][NextRender]_vars

\* the space bar with a canvas the host may have made read-only, between and
\* during drags of items and pans
NextSpace ==
  \/ SetReadOnly
  \/ KeyDownSpace
  \/ KeyUpSpace
  \/ PressItem
  \/ DragMove
  \/ MouseUp

SpecSpace == Init /\ [][NextSpace]_vars

\* the render loop, started and stopped by the host while the dirty flags
\* and the size of the canvas change
NextLoop ==
  \/ StartRendering
  \/ StopRendering
  \/ RenderFrame
  \/ SetDirty
  \/ Resize

SpecLoop == Init /\ [][NextLoop]_vars

\* frames drawn between changes of the dirty flags and of the surfaces
NextDraw ==
  \/ SetDirty
  \/ Draw
  \/ EnableWebGL
  \/ Resize

SpecDraw == Init /\ [][NextDraw]_vars

----------------------------------------------------------------------------
(* The selection API driven directly, without the pointer                  *)

InGraph == graph.items

\* whether the item was selected (flag and membership) before the call
Was(i) ==
  IF selected[i] /\ i \in selectedItems THEN "yes"
  ELSE IF ~selected[i] /\ i \notin selectedItems THEN "no"
  ELSE "mixed"

Select(i) == Install(select(Call, i), <<"select", i, Was(i)>>)

\* a deselect that directly follows the select of the same, unselected item
\* is marked as a round trip
Deselect(i) ==
  Install(deselect(Call, i),
          <<"deselect", i,
            IF lastOp = <<"select", i, "no">> THEN "roundtrip" ELSE Was(i)>>)

DeselectAll(k) ==
  Install(deselectAll(Call, k),
          <<"deselectAll", k, IF k \in selectedItems THEN "yes" ELSE "no">>)

SelectItems(add) ==
  Install(selectItems(Call, {Null}, add), <<"selectItems", Null, "-">>)

ProcessSelect(i, e, sticky) ==
  Install(processSelect(Call, i, e, sticky), <<"processSelect", i, "-">>)

MultiSelect(e, hit) ==
  Install(handleMultiSelect(Call, e, hit), <<"handleMultiSelect", Null, "-">>)

DeleteSelected == Install(deleteSelected(Call), <<"deleteSelected", Null, "-">>)

\* a group is pasted while the graph does not hold it yet
Paste(data) ==
  /\ data = "group" => PastedGroup \notin graph.items
  /\ Install(pasteFromClipboard(Call, data), <<"paste", Null, data>>)

NextSel ==
  \/ \E i \in InGraph : Select(i)
  \/ \E i \in InGraph : Deselect(i)
  \/ \E k \in InGraph \cup {Null} : DeselectAll(k)
  \/ \E add \in BOOLEAN : SelectItems(add)
  \/ \E i \in InGraph \cup {Null}, e \in Modifiers, sticky \in BOOLEAN :
       ProcessSelect(i, e, sticky)
  \/ \E e \in Modifiers, hit \in SUBSET InGraph : MultiSelect(e, hit)
  \/ DeleteSelected
  \/ Clear

SpecSel == Init /\ [][NextSel]_vars

\* the editing commands: items are selected, deleted and pasted
NextEdit ==
  \/ \E i \in InGraph : Select(i)
  \/ \E i \in InGraph : Deselect(i)
  \/ DeleteSelected
  \/ \E data \in Clipboards : Paste(data)

SpecEdit == Init /\ [][NextEdit]_vars

----------------------------------------------------------------------------
(* Properties *)

\* the number of invocations of the hook in the log of the gesture
Count(name) == Cardinality({i \in 1..Len(log) : log[i] = name})

Ended == ghost.ended \in {"up", "cancel"}

NoDragHooks ==
  Count("onDragStart") = 0 /\ Count("onDrag") = 0 /\ Count("onDragEnd") = 0

\* the hook fires n times if the press installed it, and never otherwise
Fires(name, n) ==
  Count(name) = IF name \in ghost.installed THEN n ELSE 0

NoModeFlag ==
  /\ ~state.draggingCanvas
  /\ ~state.draggingItems
  /\ resizingGroup = Null
  /\ resizing_node = Null
  /\ dragging_rectangle = Null

\* C1: a gesture installs at most one finally hook, the hook never runs
\* twice, and when the gesture has ended - by a release that was a click, by
\* a release that ended a drag, or by a cancel - an installed finally hook has
\* run exactly once.
C1_FinallyOncePerGesture ==
  /\ ghost.finSet <= 1
  /\ Count("finally") <= ghost.finSet
  /\ Ended => Count("finally") = ghost.finSet

\* a drag of items was started and then cancelled; its finally hook has run
C1_Witness ==
  /\ ghost.ended = "cancel"
  /\ ghost.finSet = 1
  /\ Count("onDragStart") = 1
  /\ Count("finally") = 1

\* C2: right after processMouseCancel no mode flag is set: draggingCanvas and
\* draggingItems are false, resizingGroup, resizing_node and
\* dragging_rectangle are null.
C2_NoModeFlagAfterCancel == [][MouseCancel => NoModeFlag']_vars

\* C3: connecting_links is non-null only during the gesture that started it:
\* whenever no gesture is in progress - before the first press, after a
\* release of any button, after a cancel - it is null.
C3_ConnectingOnlyDuringGesture == Idle => ~connecting_links.set

\* C4, as claimed: a press followed by a release with no movement beyond the
\* click threshold fires onClick exactly once and no drag hook, and
\* pointer.up returns true for exactly these gestures.
C4_ClickWithoutMovement ==
  ghost.ended = "up" =>
    /\ ~ghost.moved =>
         Fires("onClick", 1) /\ NoDragHooks /\ ghost.upResult = "true"
    /\ ghost.upResult = "true" => ~ghost.moved

\* C4, amended: a press followed by a release in which no event moved beyond
\* the click threshold and no move came after the hold-time threshold fires
\* no drag hook and, unless the press is the second of a double click, fires
\* onClick exactly once; pointer.up returns true for exactly these gestures.
C4_ClickWithinThresholds ==
  ghost.ended = "up" =>
    /\ (~ghost.moved /\ ~ghost.late) =>
         /\ NoDragHooks
         /\ ghost.upResult = "true"
         /\ ~ghost.double => Fires("onClick", 1)
    /\ ghost.upResult = "true" => (~ghost.moved /\ ~ghost.late)

\* a press, a move that stays within both thresholds, and a release: the
\* onClick hook of the press has fired once
C4_Witness ==
  /\ ghost.ended = "up"
  /\ ghost.moves >= 1
  /\ ~ghost.moved /\ ~ghost.late /\ ~ghost.double
  /\ Count("onClick") = 1
  /\ ghost.upResult = "true"

\* in the log, every entry named a comes before every entry named b
Before(a, b) ==
  \A i, j \in 1..Len(log) : (log[i] = a /\ log[j] = b) => i < j

DragOrder ==
  /\ Fires("onDragStart", 1)
  /\ "onDragStart" \in ghost.installed =>
       \A i \in 1..Len(log) :
         log[i] = "onDrag" => \E j \in 1..(i - 1) : log[j] = "onDragStart"
  /\ Fires("onDragEnd", 1)
  /\ Before("onDragEnd", "finally")
  /\ Count("onClick") = 0

\* C5, as claimed: in every ended gesture whose movement exceeded the
\* threshold, onDragStart fired exactly once and before the first onDrag,
\* exactly one onDragEnd fired before the session was reset, and onClick
\* did not fire.
C5_DragHooksEveryGesture == (Ended /\ ghost.moved) => DragOrder

\* C5, amended: the same for every gesture whose movement exceeded the
\* threshold and that ended by a pointer up.
C5_DragHooksOnRelease == (ghost.ended = "up" /\ ghost.moved) => DragOrder

\* a drag with all three hooks: started, forwarded, ended by the release
C5_Witness ==
  /\ ghost.ended = "up"
  /\ ghost.moved
  /\ Count("onDragStart") = 1
  /\ Count("onDrag") >= 1
  /\ Count("onDragEnd") = 1

\* C6: for every item of the graph, item.selected is true exactly when the
\* item is a member of selectedItems.
C6_FlagIffMember ==
  \A i \in graph.items : selected[i] <=> i \in selectedItems

\* C7: selected_nodes holds exactly the nodes that are in selectedItems.
C7_LegacyMirror == selected_nodes = selectedItems \cap Nodes

\* C8: select on an item that is already selected, and deselect on an item
\* that is not selected, change neither selectedItems, selected_nodes,
\* highlighted_links nor the item's flag, and fire no selection callback.
C8_Idempotent ==
  [][\A i \in Items :
       ((Select(i) /\ Was(i) = "yes") \/ (Deselect(i) /\ Was(i) = "no")) =>
         /\ UNCHANGED <<selected, selectedItems, selected_nodes, highlighted_links>>
         /\ callbacks' = 0]_vars

\* select was called on a node that was already selected, next to other
\* selected items
C8_Witness ==
  /\ lastOp = <<"select", "n1", "yes">>
  /\ callbacks = 0
  /\ selectedItems \ {"n1"} # {}

\* C9: select(item) directly followed by deselect(item), for an item that was
\* not selected, leaves the item with selected = false and in neither
\* selectedItems nor selected_nodes.
C9_SelectDeselect ==
  \A i \in Items :
    lastOp = <<"deselect", i, "roundtrip">> =>
      ~selected[i] /\ i \notin selectedItems /\ i \notin selected_nodes

\* the round trip was made on a node while another item stayed selected
C9_Witness ==
  /\ lastOp = <<"deselect", "n1", "roundtrip">>
  /\ selectedItems # {}

\* C10: a call deselectAll(k) leaves selectedItems = {k} if k was selected
\* and empty otherwise, leaves every other item that was selected with
\* selected = false, and leaves in highlighted_links only ids of links
\* attached to k; without k, selection and highlights end empty.
C10_DeselectAll ==
  [][\A k \in Items \cup {Null} :
       DeselectAll(k) =>
         /\ selectedItems' = IF k \in selectedItems THEN {k} ELSE {}
         /\ \A i \in selectedItems \ {k} : ~selected'[i]
         /\ highlighted_links' \subseteq
              (IF k \in Nodes THEN LinkKeys(Canvas, k) ELSE {})
         /\ k = Null => selectedItems' = {} /\ highlighted_links' = {}]_vars

\* deselectAll(n1) was called with n1 and other items selected
C10_Witness ==
  /\ lastOp = <<"deselectAll", "n1", "yes">>
  /\ callbacks >= 1
  /\ selectedItems = {"n1"}
  /\ highlighted_links # {}

\* the step is a right-button press over a node
RightPressOnNode ==
  /\ Idle /\ pointer'.eDown.set
  /\ pointer'.eDown.button = 2
  /\ ghost'.node # Null

StillSelected ==
  \A i \in selectedItems : i \in selectedItems' /\ selected'[i]

MarqueeEnds ==
  /\ ~Idle
  /\ pointer.onDragEnd.k = "multiSelect"
  /\ ghost'.ended = "up" /\ ghost'.upResult = "false"

\* after the step exactly the items of S are selected
SelectionBecomes(S) ==
  /\ selectedItems' = S
  /\ \A i \in graph.items : selected'[i] <=> i \in S

\* C13: when a marquee gesture ends with neither Shift nor Alt held, the
\* selection becomes exactly the items the rectangle selects (nodes it
\* overlaps, groups wholly inside it, reroutes positioned inside it); every
\* other item that was selected is deselected.
C13_MarqueeReplaces ==
  [][(MarqueeEnds /\ ~ghost'.upMods.shift /\ ~ghost'.upMods.alt) =>
       SelectionBecomes(ghost'.rect)]_vars

\* a plain marquee around n1 has selected n1 and deselected another node
C13_Witness ==
  /\ ghost.ended = "up" /\ ghost.upResult = "false"
  /\ "onDragEnd" \in ghost.installed
  /\ ghost.upMods = NoMods
  /\ ghost.rect = {"n1"}
  /\ selectedItems = {"n1"}
  /\ callbacks = 2

\* C14: when a marquee gesture ends with Shift held, the new selection is the
\* old selection united with the items the rectangle selects; when it ends
\* with Alt and without Shift, it is the old selection minus those items;
\* for nodes, groups and reroutes alike.
C14_MarqueeAddsOrRemoves ==
  [][MarqueeEnds =>
       /\ ghost'.upMods.shift => SelectionBecomes(selectedItems \cup ghost'.rect)
       /\ (ghost'.upMods.alt /\ ~ghost'.upMods.shift) =>
            SelectionBecomes(selectedItems \ ghost'.rect)]_vars

\* an Alt marquee around n2 and r1 has removed them from a larger selection
C14_Witness ==
  /\ ghost.ended = "up" /\ ghost.upResult = "false"
  /\ "onDragEnd" \in ghost.installed
  /\ ghost.upMods.alt
  /\ ghost.rect = {"n2", "r1"}
  /\ selectedItems = {"n1", "g1"}
  /\ callbacks = 1

\* C12: select on a node that is not selected adds the link ids on its
\* inputs and outputs to highlighted_links, and deselect on a selected node
\* removes exactly those ids, whether or not another selected node holds the
\* same link.
C12_HighlightNotCounted ==
  [][/\ (lastOp'[1] = "select" /\ lastOp'[2] \in Nodes /\ lastOp'[3] # "yes") =>
          highlighted_links' = highlighted_links \cup LinkKeys(Canvas, lastOp'[2])
     /\ (lastOp'[1] = "deselect" /\ lastOp'[2] \in Nodes /\ lastOp'[3] # "no") =>
          highlighted_links' = highlighted_links \ LinkKeys(Canvas, lastOp'[2])]_vars

\* n1 was deselected while n2, at the other end of link l1, is still
\* selected: l1 is no longer highlighted
C12_Witness ==
  /\ lastOp = <<"deselect", "n1", "yes">>
  /\ "n2" \in selectedItems /\ selected["n2"]
  /\ "l1" \in graph.links
  /\ "l1" \notin highlighted_links

\* the link test of the press accepts the link under the pointer
LinkMatches(m, h) ==
  LET onStroke == h.link \in {"stroke", "centre"}
  IN \/ onStroke /\ m.shift /\ ~m.alt
     \/ onStroke /\ reroutesEnabled /\ m.alt /\ ~m.shift
     \/ h.link = "centre" /\ ~m.shift /\ ~m.alt

\* what the hit tests are left with when only the first match of the order
\* node, reroute marker, link, group resize corner, group header is kept
Winner(m, h) ==
  IF h.node # Null /\ allow_interaction
    THEN Hit(h.node, h.region, Null, "none", Null, Null, "none")
  ELSE IF reroutesEnabled /\ h.reroute # Null
    THEN Hit(Null, "none", h.reroute, "none", Null, Null, "none")
  ELSE IF LinkMatches(m, h)
    THEN Hit(Null, "none", Null, h.link, h.segment, Null, "none")
  ELSE Hit(Null, "none", Null, "none", Null, h.group,
           IF h.gregion = "both" THEN "resize" ELSE h.gregion)

\* the canvas and graph state a handler leaves, without the history
Program(c) ==
  <<c.pointer, c.state, c.resizing_node, c.resizingGroup, c.dragging_rectangle,
    c.connecting_links, c.node_widget, c.selected, c.selectedItems,
    c.selected_nodes, c.highlighted_links, c.graph>>

\* C15: on a primary press the hit tests stop at the first match in the order
\* node, reroute marker, link, group resize corner, group header: the press
\* leaves the hooks and the state that a press on the first match alone
\* leaves, so with a node under the point nothing of a reroute, link or group
\* under the same point is installed.
C15_FirstHitWins ==
  [][(Idle /\ pointer'.eDown.set) =>
       Program([pointer |-> pointer', state |-> state',
                resizing_node |-> resizing_node', resizingGroup |-> resizingGroup',
                dragging_rectangle |-> dragging_rectangle',
                connecting_links |-> connecting_links',
                node_widget |-> node_widget', selected |-> selected',
                selectedItems |-> selectedItems', selected_nodes |-> selected_nodes',
                highlighted_links |-> highlighted_links', graph |-> graph'])
       = Program(processMouseDown(Enter, pointer'.eDown,
                                  Winner(pointer'.eDown.mods, ghost'.hit)))]_vars

\* a press on the body of n1 with a reroute, the centre of a link and the
\* header of a group under the same point has installed the node's hooks only
C15_Witness ==
  /\ pointer.eDown.set
  /\ ghost.hit = Hit("n1", "body", "r1", "centre", "l1", "g1", "header")
  /\ pointer.onClick = Hook("select", "n1")
  /\ pointer.onDragStart = Hook("dragItems", "n1")
  /\ pointer.onDoubleClick = Hook("nodeDblClick", "n1")
  /\ ~connecting_links.set

\* the gesture has started a drag of items
ItemDrag ==
  /\ ghost.dragKind \in {"dragItems", "dragNewReroute"}
  /\ Count("onDragStart") = 1

\* C16: a gesture that drags items calls graph.beforeChange exactly once, at
\* drag start, and graph.afterChange exactly once, when it ends by pointer
\* up or cancel; state.draggingItems is true exactly between the two calls.
C16_ItemDragBracket ==
  /\ ItemDrag =>
       /\ ghost.before = 1
       /\ ghost.after = IF Ended THEN 1 ELSE 0
       /\ state.draggingItems <=> ~Ended
  /\ (ghost.dragKind \in {"dragItems", "dragNewReroute"} /\ ~ItemDrag) =>
       ghost.before = 0 /\ ghost.after = 0 /\ ~state.draggingItems

\* a drag of items was started, moved and cancelled: one call of each
C16_Witness ==
  /\ ItemDrag
  /\ ghost.ended = "cancel"
  /\ ghost.moves = 2
  /\ ghost.before = 1 /\ ghost.after = 1
  /\ ~state.draggingItems

\* C17: when pasteFromClipboard or deleteSelected has returned or failed, it
\* has called graph.afterChange as often as graph.beforeChange.
C17_ChangeCallsMatch ==
  lastOp[1] \in {"paste", "deleteSelected"} => ghost.after = ghost.before

\* the step is a release of the left button that is no click, taken while
\* connecting_links holds links
LinkReleased ==
  /\ ~Idle
  /\ pointer.eDown.button = 0
  /\ ghost'.ended = "up" /\ ghost'.upResult = "false"
  /\ connecting_links.set /\ Len(connecting_links.list) > 0

\* what the release over the node does with a link dragged from an output
ExpectedCall(link, over) ==
  IF over.input # -1 THEN LinkCall("connect", link.node, over.node, over.input)
  ELSE IF link_over_widget # Null
  THEN LinkCall("connectingWidgetLink", link.node, over.node, -1)
  ELSE LinkCall("connectByType", link.node, over.node, -1)

Connects == {"connect", "connectByType", "connectByTypeOutput"}

\* the release step has committed the dragged links
LinkReleaseCommits ==
  LET over == ghost'.upOver
      list == connecting_links.list
      calls == ghost'.calls
  IN /\ ~connecting_links'.set
     /\ over.node = Null =>
          calls = <<LinkCall("empty-release", list[1].node, Null, -1)>>
     /\ over.node # Null =>
          /\ \A k \in 1..Len(list) :
               list[k].output =>
                 \E j \in 1..Len(calls) : calls[j] = ExpectedCall(list[k], over)
          /\ \A j \in 1..Len(calls) : calls[j].op # "empty-release"
          /\ (over.input = -1 /\ link_over_widget # Null
               /\ \A k \in 1..Len(list) : list[k].output) =>
                 \A j \in 1..Len(calls) : calls[j].op \notin Connects

\* C18: on a release of the primary button that is no click, with links
\* being dragged: over a node, every link dragged from an output is connected
\* to the input slot under the pointer if there is one, else a hovered
\* link-compatible widget gets a connectingWidgetLink event and no connection
\* is made, else connectByType is called on the node; over no node exactly
\* one empty-release event is emitted and no connection is made.  In every
\* case connecting_links is null afterwards.
C18_LinkRelease == [][LinkReleased => LinkReleaseCommits]_vars

\* the calls and events the step has added for dragged links
NewCalls ==
  IF Len(ghost'.calls) > Len(ghost.calls)
  THEN {ghost'.calls[j] : j \in (Len(ghost.calls) + 1)..Len(ghost'.calls)}
  ELSE {}

\* C19: while state.readOnly is true no pointer or keyboard input changes the
\* graph: no item is added or removed and no link is connected or
\* disconnected; a press of the primary button only starts a pan, or with
\* Ctrl the marquee.
C19_ReadOnlyKeepsGraph ==
  [][state.readOnly =>
       /\ graph'.items = graph.items
       /\ graph'.links = graph.links
       /\ \A call \in NewCalls : call.op \notin Connects
       /\ (Idle /\ pointer'.eDown.set /\ pointer'.eDown.button = 0
            /\ ~pointer'.isDouble) =>
             \/ pointer'.onDragEnd.k = "multiSelect"
             \/ /\ state'.draggingCanvas
                /\ hooksInstalled(Canvas') = {}
                /\ connecting_links' = connecting_links
                /\ selectedItems' = selectedItems]_vars

\* the step is a draw()
Drawn == lastOp'[1] = "draw"

\* the draw() of the step had no force argument and no recent trigger, and
\* the step before it was a draw() too
PlainRedraw ==
  /\ lastOp[1] = "draw"
  /\ ghost'.drawArgs = NoDrawArgs
  /\ ~always_render_background

\* the condition under which draw() renders the back canvas
RenderBack ==
  \/ display.dirty_bgcanvas
  \/ ghost'.drawArgs.force_bgcanvas
  \/ always_render_background
  \/ ghost'.drawArgs.triggered

UnknownModeRender ==
  /\ lastOp'[1] = "renderLink" /\ lastOp'[2] # Null
  /\ render.links_render_mode \notin {"spline", "linear", "straight"}

\* C21: in a mode that is not spline, linear or straight renderLink draws
\* nothing and leaves the cached path, centre point and centre angle of the
\* link or reroute as they were.
C21_UnknownModeKeepsCache ==
  [][UnknownModeRender =>
       /\ ghost'.strokes = 0
       /\ render'.cache = render.cache]_vars

\* the step is the release, within the click thresholds, of a primary press
\* that came within the double-click window of a completed click
DoubleClickEnds ==
  /\ ~Idle
  /\ ghost.double
  /\ ghost'.ended = "up" /\ ghost'.upResult = "true"

\* C22: a second primary press within the double-click window of a completed
\* click invokes the onDoubleClick hook of the gesture once if the press has
\* set one, and a press on a group or on the empty canvas has set the emitter
\* of the group-double-click or of the empty-double-click event; onClick is
\* not invoked for the second press.
C22_DoubleClickSuppressesClick ==
  [][DoubleClickEnds =>
       /\ Cardinality({i \in 1..Len(log') : log'[i] = "onClick"}) = 0
       /\ Cardinality({i \in 1..Len(log') : log'[i] = "onDoubleClick"})
            = IF pointer.onDoubleClick.k # "none" THEN 1 ELSE 0
       /\ ghost.pressed = "group" => pointer.onDoubleClick.k = "groupDblClick"
       /\ ghost.pressed = "empty" => pointer.onDoubleClick.k = "emptyDblClick"]_vars

\* the second press of a double click on the header of the group g1 has been
\* released: onDoubleClick has fired once, onClick has not
C22_Witness ==
  /\ ghost.ended = "up" /\ ghost.double /\ ghost.upResult = "true"
  /\ ghost.gestures = 2
  /\ "onClick" \in ghost.installed /\ "onDoubleClick" \in ghost.installed
  /\ Count("onDoubleClick") = 1 /\ Count("onClick") = 0
  /\ ghost.node = Null

\* the step is a drag tick of the resize of a node
ResizeTick ==
  /\ pointer.onDrag.k = "resizeNode"
  /\ ghost'.moves = ghost.moves + 1
  /\ pointer'.dragStarted

\* C23: after every drag tick of a node resize the size of the node is at
\* least node.computeSize() in width and in height, wherever the pointer is
\* and whether or not the grid is snapped to.
C23_ResizeKeepsMinimum ==
  [][ResizeTick =>
       LET n == pointer.onDrag.item
       IN /\ geom'.size[n][1] >= computeSize(n)[1]
          /\ geom'.size[n][2] >= computeSize(n)[2]]_vars

\* a tick with the grid active and the pointer left of the least width: the
\* width is the least width, the height is the snapped height
C23_Witness ==
  /\ resizing_node = "n1"
  /\ display.snapToGrid = SnapSize
  /\ ghost.at = <<8, 26>>
  /\ geom.size["n1"] = <<14, 30>>

\* the step is a primary press on a node
NodePressed == Idle /\ ~Idle' /\ ghost'.node # Null

\* the lowest index of a set of slots
Lowest(S) == CHOOSE i \in S : \A k \in S : k >= i

\* C24: a primary press on a node that is not collapsed, outside the collapse
\* toggle, installs the gesture of the first region that holds the point in
\* the order resize corner, output slots by ascending index, input slots by
\* ascending index, widget, body: the resize corner wins over a slot, an
\* output over an input; a press on a collapsed node starts neither a resize
\* nor a connection.  A press that starts no connection leaves
\* connecting_links as it was.
C24_NodeRegionOrder ==
  [][NodePressed =>
       LET t == ghost'.tests
           n == ghost'.node
           shift == pointer'.eDown.mods.shift
           resizes == pointer'.onDragStart = Hook("resizeNode", n)
           list == connecting_links'.list
       IN /\ t.collapsed => ~resizes /\ connecting_links' = connecting_links
          /\ (~t.collapsed /\ ~t.inCollapse) =>
               IF t.inResizeCorner
               THEN resizes /\ connecting_links' = connecting_links
               ELSE IF t.outputs # {}
               THEN /\ ~resizes /\ connecting_links'.set
                    /\ \/ list = <<Connecting(n, Lowest(t.outputs), TRUE, FALSE, Null)>>
                       \/ /\ shift /\ list # <<>>
                          /\ \A k \in 1..Len(list) : list[k].input /\ list[k].node # n
               ELSE IF t.inputs # {}
               THEN /\ ~resizes /\ connecting_links'.set
                    /\ pointer'.onClick = Hook("inputClick", n)
                    /\ \/ list = <<Connecting(n, Lowest(t.inputs), FALSE, FALSE, Null)>>
                       \/ \E l \in graph.links :
                            /\ LinkTarget[l] = n
                            /\ LinkTargetSlot[l] = Lowest(t.inputs)
                            /\ list = <<Connecting(LinkOrigin[l], 0, TRUE, FALSE, Null)>>
               ELSE IF t.widget
               THEN /\ node_widget' = n /\ pointer'.onClick = Hook("widget", n)
                    /\ ~resizes /\ connecting_links' = connecting_links
               ELSE /\ pointer'.onDragStart = Hook("dragItems", n)
                    /\ connecting_links' = connecting_links]_vars

\* a press on a point of n1 inside the hit boxes of both of its outputs and
\* of an input, outside the resize corner: the connection starts at output 0
C24_Witness ==
  /\ ~Idle /\ ghost.node = "n1" /\ ghost.moves = 0
  /\ ghost.tests.outputs = {0, 1} /\ ghost.tests.inputs = {0}
  /\ ~ghost.tests.inResizeCorner /\ ~ghost.tests.collapsed
  /\ ~pointer.eDown.mods.shift
  /\ connecting_links.list = <<Connecting("n1", 0, TRUE, FALSE, Null)>>

\* the gesture began with a press on a linked input slot that kept the link
\* for a reconnection
Reconnecting == ~Idle /\ ghost.dragKind = "reconnect"

\* the hook has run in the gesture
Ran(l, name) == \E k \in 1..Len(l) : l[k] = name

\* the link that ends on input 0 of the node
InputLink(n) == CHOOSE l \in Links : LinkTarget[l] = n /\ LinkTargetSlot[l] = 0

\* C25: with allow_reconnect_links on and click_do_break_link_to off, the
\* press on a linked input slot removes no link and anchors the connection at
\* the link's origin; while the drag has not started no step removes a link,
\* and a release without drag leaves the link in place and connecting_links
\* null; the step in which the drag starts disconnects the input, and the
\* connection that goes on is anchored at the origin node and slot of the link.
C25_ReconnectOnDragStart ==
  [][/\ (Idle /\ ~Idle' /\ ghost'.dragKind = "reconnect") =>
          /\ graph' = graph
          /\ InputLink(ghost'.node) \in graph'.links
          /\ connecting_links'.list =
               <<Connecting(LinkOrigin[InputLink(ghost'.node)], 0, TRUE, FALSE, Null)>>
     /\ (Reconnecting /\ ~Ran(log', "onDragStart")) =>
          /\ graph'.links = graph.links
          /\ InputLink(ghost.node) \in graph'.links
          /\ ghost'.ended = "up" => connecting_links' = NoConnecting
     /\ (Reconnecting /\ ~Ran(log, "onDragStart")
           /\ Ran(log', "onDragStart")) =>
          /\ InputLink(ghost.node) \notin graph'.links
          /\ graph'.links = graph.links \ {InputLink(ghost.node)}
          /\ ghost'.ended = "active" =>
               connecting_links'.list =
                 <<Connecting(LinkOrigin[InputLink(ghost.node)], 0, TRUE, FALSE, Null)>>
    ]_vars

\* the drag of the link pressed on the input of n2 has started: the link is
\* gone and the connection hangs on output 0 of n1
C25_Witness ==
  /\ Reconnecting /\ pointer.dragStarted /\ ghost.node = "n2"
  /\ "l1" \notin graph.links
  /\ connecting_links.set /\ Len(connecting_links.list) = 1
  /\ connecting_links.list[1].node = "n1" /\ connecting_links.list[1].slot = 0
  /\ connecting_links.list[1].output

\* the links that leave output i of node n
LinksFrom(n, i) == {l \in graph.links : LinkOrigin[l] = n /\ i = 0}

\* the step is a primary press that lands on an output slot of a node: the
\* node is not collapsed and the point is outside the collapse toggle and the
\* resize corner
OutputPressed ==
  /\ NodePressed
  /\ ~ghost'.tests.collapsed /\ ~ghost'.tests.inCollapse
  /\ ~ghost'.tests.inResizeCorner /\ ghost'.tests.outputs # {}

\* C26: a press with Shift on an output slot that has k >= 1 links sets
\* connecting_links to k entries, one for each link, anchored at the target
\* node and the target input slot of that link, and removes no link; a press
\* without Shift sets connecting_links to the single entry anchored at the
\* pressed output slot.
C26_ShiftDragsOutputLinks ==
  [][OutputPressed =>
       LET n == ghost'.node
           i == Lowest(ghost'.tests.outputs)
           ls == LinksFrom(n, i)
           list == connecting_links'.list
       IN /\ connecting_links'.set
          /\ (pointer'.eDown.mods.shift /\ ls # {}) =>
               /\ Len(list) = Cardinality(ls)
               /\ \A l \in ls :
                    Cardinality({k \in 1..Len(list) :
                                   list[k] = Connecting(LinkTarget[l], LinkTargetSlot[l],
                                                        FALSE, TRUE, Null)}) = 1
               /\ graph' = graph
          /\ ~pointer'.eDown.mods.shift =>
               list = <<Connecting(n, i, TRUE, FALSE, Null)>>
    ]_vars

\* Shift + press on output 0 of n1 while both links leave it: two entries,
\* at inputs 0 and 1 of n2, and both links are still in the graph
C26_Witness ==
  /\ ~Idle /\ ghost.node = "n1" /\ pointer.eDown.mods.shift
  /\ ghost.tests.outputs = {0} /\ ~ghost.tests.inResizeCorner
  /\ ~ghost.tests.collapsed /\ ~ghost.tests.inCollapse
  /\ graph.links = Links
  /\ connecting_links.list = <<Connecting("n2", 0, FALSE, TRUE, Null),
                               Connecting("n2", 1, FALSE, TRUE, Null)>>

\* the step is a primary press on the stroke of a segment
StrokePressed == Idle /\ ~Idle' /\ ghost'.hit.link = "stroke"

\* C27: a press on the stroke of a segment with Shift alone sets
\* connecting_links to one entry anchored at the origin node and slot of the
\* segment, after the parent reroute of the segment if it has one, and leaves
\* the graph as it was; with Alt alone it adds exactly one reroute to the
\* graph, at the point of the press, spliced between the segment and the
\* parent the segment had, installs the drag of that reroute and leaves
\* connecting_links as it was; when that drag starts the items are dragged.
C27_StrokeShiftConnectsAltReroutes ==
  [][/\ StrokePressed =>
          LET seg == ghost'.hit.segment
              m == pointer'.eDown.mods
              list == connecting_links'.list
          IN /\ (m.shift /\ ~m.alt) =>
                  /\ connecting_links'.set /\ Len(list) = 1
                  /\ list[1].node = SegmentOrigin(seg) /\ list[1].slot = 0
                  /\ list[1].afterRerouteId = graph.parent[seg]
                  /\ graph' = graph
             /\ (m.alt /\ ~m.shift) =>
                  /\ NewReroute \notin graph.items
                  /\ graph'.items = graph.items \cup {NewReroute}
                  /\ graph'.links = graph.links
                  /\ geom'.pos[NewReroute] = ghost'.at
                  /\ graph'.parent[seg] = NewReroute
                  /\ graph'.parent[NewReroute] = graph.parent[seg]
                  /\ \A s \in LinkSegments \ {seg, NewReroute} :
                       graph'.parent[s] = graph.parent[s]
                  /\ pointer'.onDragStart = Hook("dragNewReroute", NewReroute)
                  /\ connecting_links' = connecting_links
     /\ (~Idle /\ ghost.dragKind = "dragNewReroute" /\ ~Ran(log, "onDragStart")
           /\ Ran(log', "onDragStart") /\ ghost'.ended = "active") =>
          /\ state'.draggingItems
          /\ graph' = graph
          /\ connecting_links' = connecting_links
    ]_vars

\* Alt + press at (40, 20) on the last segment of l1, which starts from r1:
\* the new reroute lies at the point, between r1 and the input; its drag has
\* started
C27_Witness ==
  /\ ~Idle /\ ghost.dragKind = "dragNewReroute" /\ state.draggingItems
  /\ NewReroute \in graph.items
  /\ geom.pos[NewReroute] = <<40, 20>>
  /\ graph.parent["l1"] = NewReroute /\ graph.parent[NewReroute] = "r1"
  /\ ~connecting_links.set

\* Shift + press on the last segment of l1: the connection leaves output 0 of
\* n1 after r1
C27_WitnessShift ==
  /\ ~Idle /\ ghost.hit.segment = "l1" /\ pointer.eDown.mods.shift
  /\ connecting_links.list = <<Connecting("n1", 0, FALSE, FALSE, "r1")>>

\* the step is a pointer move
Moved == ghost'.moves = ghost.moves + 1

\* the items and the items inside the groups among them
Nested(S) == S \cup {i \in graph.items : \E g \in S \cap Groups : i \in GroupChildren[g]}

\* the position after a move by delta at the scale of the view
MovedBy(p, delta) == <<p[1] + delta[1] \div geom.scale, p[2] + delta[2] \div geom.scale>>

\* C28: a pointer move while state.draggingItems is set moves every selected
\* item, and unless Ctrl is held every item inside a selected group, once by
\* delta / scale, and leaves the position of every other item as it was.
C28_DragMovesSelection ==
  [][(state.draggingItems /\ Moved) =>
       LET S == IF ghost'.ctrl THEN selectedItems ELSE Nested(selectedItems)
       IN \A i \in Items :
            geom'.pos[i] = IF i \in S THEN MovedBy(geom.pos[i], ghost'.delta)
                           ELSE geom.pos[i]]_vars

\* the drag of n1 has moved it once; the space bar went down and the second
\* move has panned the view and left n1 where it was
C28_Witness ==
  /\ state.draggingItems /\ state.readOnly /\ state.draggingCanvas
  /\ selectedItems = {"n1"} /\ ghost.moves = 2 /\ geom.scale = 1
  /\ geom.pos["n1"] = <<4, -2>> /\ geom.offset = <<4, -2>>

\* the step is a primary press on the empty canvas or on the body of a group,
\* outside its header and its resize corner
EmptyPressed ==
  /\ Idle /\ ~Idle'
  /\ pointer'.eDown.button = 0 /\ ~pointer'.eDown.mods.ctrl
  /\ ghost'.hit.node = Null /\ ghost'.hit.reroute = Null /\ ghost'.hit.link = "none"
  /\ ghost'.hit.group = Null \/ ghost'.hit.gregion = "body"

\* the gesture is the pan that the press on nothing has started
Panning ==
  /\ ~Idle /\ state.draggingCanvas
  /\ pointer.onDragStart.k = "none" /\ pointer.onDrag.k = "none"
  /\ pointer.finally = Hook("canvas", Null)

HoverMoved ==
  /\ lastOp' = <<"mousemove", Null, "-">>
  /\ dragging_rectangle' = Null /\ resizingGroup' = Null
  /\ ~state'.draggingCanvas /\ ~state'.readOnly

\* C30: after a pointer move that hovers, the Link bit of state.hoveringOver
\* is set exactly when the pointer is over the centre marker of a link
\* segment and over no node, whatever the moves before it were.
C30_LinkBitIffOverCentre ==
  [][HoverMoved =>
       ("Link" \in state'.hoveringOver
          <=> (ghost'.over.node = Null /\ ghost'.over.centre # Null))]_vars

\* the other bits after a move that hovers follow from what is under the
\* pointer and from resizing_node
C30_OtherBitsFromPointer ==
  [][HoverMoved =>
       /\ "Node" \in state'.hoveringOver <=> ghost'.over.node # Null
       /\ "ResizeSe" \in state'.hoveringOver
            <=> \/ ghost'.over.node # Null /\ ghost'.over.corner
                \/ ghost'.over.node = Null /\ ghost'.over.gresize
                \/ resizing_node' # Null]_vars

\* the pointer rests on the centre marker of l1 for a second move: the Link
\* bit is not set
C30_Witness ==
  /\ lastOp = <<"mousemove", Null, "-">>
  /\ ~state.draggingCanvas /\ ~state.readOnly
  /\ ghost.over.node = Null /\ ghost.over.centre = "l1"
  /\ over_link_center = "l1"
  /\ "Link" \notin state.hoveringOver


\* the glyph the hover bitmask alone determines: resize handle, then node
\* body, then the default cursor
Glyph(bits) ==
  IF "ResizeSe" \in bits THEN "se-resize"
  ELSE IF "Node" \in bits THEN "crosshair"
  ELSE ""

\* C31: after every processMouseMove with state.shouldSetCursor set, the
\* cursor of the canvas is the glyph of the hover bitmask of that move:
\* 'se-resize' with the resize bit, else 'crosshair' with the Node bit, else
\* the default cursor, never the glyph of an earlier move.
C31_CursorFromBitmask ==
  [][(shouldSetCursor /\ lastOp' = <<"mousemove", Null, "-">>)
       => display'.cursor = Glyph(state'.hoveringOver)]_vars

\* a move over the centre of a link has left the glyph of the node hovered
\* before it
C31_Witness ==
  /\ lastOp = <<"mousemove", Null, "-">>
  /\ state.hoveringOver = {"Link"}
  /\ display.cursor = "crosshair"


\* C32: the highlighted snap or connection target exists only while a
\* connection drag is in progress: _highlight_pos, _highlight_input and
\* link_over_widget are non-null only if connecting_links is non-empty.
C32_HighlightOnlyWhileConnecting ==
  (_highlight_pos # Null \/ _highlight_input # Null \/ link_over_widget # Null)
    => (connecting_links.set /\ Len(connecting_links.list) > 0)

\* a dragged link has been released on the input it snapped to: the drag is
\* over and the snap target is still set
C32_Witness ==
  /\ ~pointer.isDown /\ ghost.ended = "up"
  /\ ~connecting_links.set
  /\ _highlight_pos # Null /\ _highlight_input # Null
  /\ mouseOver.node # Null


\* the last step was a pass of drawConnections
Passed == lastOp = <<"drawConnections", Null, "-">>

\* the links of the pass that are visible and whose input is sound
Sound == {l \in graph.links \cap ghost.view.visible : ghost.view.fault[l] = "ok"}

\* the calls of renderLink of the pass
Calls == {ghost.drawn[k] : k \in 1..Len(ghost.drawn)}

\* the pass has rendered the segment from a to b that ends at the reroute
\* (or at the input slot, with reroute = Null)
Rendered(a, b, reroute) ==
  \E call \in Calls : call.a = a /\ call.b = b /\ call.reroute = reroute

\* C33: in one drawConnections pass a visible link with reroutes r1..rn is
\* rendered as the segments start->r1, r1->r2, ..., rn->end; the segment that
\* ends at a reroute is rendered at most once, also when links share the
\* reroute; each segment after a reroute gets a start control derived from
\* that reroute; and after the pass renderedPaths holds exactly the links and
\* the reroutes that were rendered.
C33_SegmentsOncePerPass ==
  Passed =>
    /\ \A l \in Sound :
         LET rs == getReroutes(Canvas, l)
         IN Len(rs) >= 1 =>
              /\ Rendered(StartPos(l), ReroutePos(rs[1]), rs[1])
              /\ \A j \in 2..Len(rs) :
                   Rendered(ReroutePos(rs[j - 1]), ReroutePos(rs[j]), rs[j])
              /\ \E call \in Calls :
                   /\ call.link = l /\ call.reroute = Null
                   /\ call.a = ReroutePos(rs[Len(rs)]) /\ call.b = EndPos(l)
    /\ \A r \in Reroutes :
         Cardinality({k \in 1..Len(ghost.drawn) : ghost.drawn[k].reroute = r}) <= 1
    /\ \A call \in Calls :
         \A r \in Reroutes :
           call.a = ReroutePos(r) => call.startControl = [of |-> r, to |-> call.b]
    /\ renderedPaths = {call.link : call \in {d \in Calls : d.reroute = Null}}
                         \cup {call.reroute : call \in {d \in Calls : d.reroute # Null}}

\* a pass has rendered two visible links that share their first reroute, one
\* of them through a second reroute
C33_Witness ==
  /\ Passed
  /\ Sound = Links
  /\ \A l \in Links : Len(getReroutes(Canvas, l)) >= 1
  /\ getReroutes(Canvas, "l1")[1] = getReroutes(Canvas, "l2")[1]
  /\ \E l \in Links : Len(getReroutes(Canvas, l)) = 2
  /\ Len(ghost.drawn) = 4

\* C35: drawConnections skips an input whose link id is missing from the
\* graph, whose origin node no longer exists or whose origin or target slot
\* is missing, and renders every other visible link in the same pass.
C35_FaultyInputsSkipped ==
  Passed =>
    \A l \in Links :
      IF l \in Sound
      THEN /\ l \in renderedPaths
           /\ Cardinality({k \in 1..Len(ghost.drawn) :
                             /\ ghost.drawn[k].link = l
                             /\ ghost.drawn[k].reroute = Null
                             /\ ghost.drawn[k].b = EndPos(l)}) = 1
      ELSE /\ l \notin renderedPaths
           /\ \A call \in Calls : call.link # l

\* a pass has skipped the first input, whose link has lost its origin slot
\* or its origin node, and has rendered the link of the second input
C35_Witness ==
  /\ Passed
  /\ "l1" \in ghost.view.visible /\ ghost.view.fault["l1"] \in {"noOrigin", "noSlot"}
  /\ "l2" \in Sound /\ "l2" \in renderedPaths /\ "l1" \notin renderedPaths
  /\ Len(ghost.drawn) >= 1

\* a pass has skipped an input that holds the id of a link the graph does
\* not hold, and has rendered the link of the other input
C35_WitnessMissing ==
  /\ Passed
  /\ ghost.view.fault["l2"] = "noLink"
  /\ renderedPaths # {} /\ "l1" \in renderedPaths


\* the unit vector of a direction hint
Along(direction) ==
  CASE direction = "left" -> <<-1, 0>>
    [] direction = "right" -> <<1, 0>>
    [] direction = "up" -> <<0, -1>>
    [] direction = "down" -> <<0, 1>>
    [] OTHER -> <<0, 0>>

\* the control point of an anchor: the anchor moved along its hint by a
\* quarter of the distance between the anchors (whole in the model)
Control(p, direction, r) ==
  LET q == distance(r.a, r.b) \div 4
  IN <<p[1] + q * Along(direction)[1], p[2] + q * Along(direction)[2]>>

\* the cubic bezier at t = 1/2, in millionths: (A + 3 P1 + 3 P2 + B) / 8
Half(r) ==
  LET p1 == Control(r.a, r.start_dir, r)
      p2 == Control(r.b, r.end_dir, r)
  IN <<(r.a[1] + 3 * p1[1] + 3 * p2[1] + r.b[1]) * (Unit \div 8),
       (r.a[2] + 3 * p1[2] + 3 * p2[2] + r.b[2]) * (Unit \div 8)>>

\* the image of a render under the mirror x -> 2m - x
MirrorOf(r, m) ==
  LET flip(d) == IF d = "left" THEN "right" ELSE IF d = "right" THEN "left" ELSE d
  IN [a |-> <<2 * m - r.a[1], r.a[2]>>, b |-> <<2 * m - r.b[1], r.b[2]>>,
      start_dir |-> flip(r.start_dir), end_dir |-> flip(r.end_dir), mode |-> r.mode]

\* the axes the end points of the model are mirrored about
Axes == {0, 64}

\* C34: in spline mode without explicit control points the control points
\* are the anchors moved along their hints by 0.25 x distance(A, B) and the
\* cached centre is the cubic bezier at t = 0.5; for A = (0,0), B = (100,0)
\* with hints right/left the centre has x = 50; and the centre of the mirror
\* image of a link is the mirror image of the centre of the link.
C34_SplineCentre ==
  /\ \A s \in Segments :
       LET r == ghost.renders[s]
           cache == render.cache[s]
       IN r.mode = "spline" =>
            /\ cache.path = <<<<"moveTo", r.a>>,
                               <<"bezierCurveTo", Control(r.a, r.start_dir, r),
                                 Control(r.b, r.end_dir, r), r.b>>>>
            /\ cache.pos = Half(r)
            /\ (r.a = <<0, 0>> /\ r.b = <<100, 0>> /\ r.start_dir = "right"
                  /\ r.end_dir = "left") => cache.pos[1] = 50 * Unit
  /\ \A s, t \in Segments, m \in Axes :
       (/\ ghost.renders[s].mode = "spline"
        /\ ghost.renders[t] = MirrorOf(ghost.renders[s], m))
         => /\ render.cache[t].pos[1] = 2 * m * Unit - render.cache[s].pos[1]
            /\ render.cache[t].pos[2] = render.cache[s].pos[2]

\* the link from (0,0) to (100,0) and its mirror image have been rendered
\* as splines: the centres are (50,0) and (-50,0)
C34_Witness ==
  /\ ghost.renders["l1"] = [a |-> <<0, 0>>, b |-> <<100, 0>>, start_dir |-> "right",
                            end_dir |-> "left", mode |-> "spline"]
  /\ ghost.renders["r1"] = MirrorOf(ghost.renders["l1"], 0)
  /\ render.cache["l1"].pos = <<50 * Unit, 0>>
  /\ render.cache["r1"].pos = <<-50 * Unit, 0>>


\* C36: state.draggingCanvas is true only while the pointer is down: in every
\* state in which the pointer is not down, whatever the interleaving of
\* pointer and space-key events before it, draggingCanvas is false.
C36_PanOnlyWhilePointerDown == ~pointer.isDown => ~state.draggingCanvas

\* the space bar has been released after the pointer: the canvas is left
\* panning with no pointer down
C36_Witness ==
  /\ ~pointer.isDown /\ Idle
  /\ state.draggingCanvas
  /\ ~state.readOnly /\ previously_dragging_canvas = "null"
  /\ ghost.gestures >= 1


\* the gesture modes that are active
ActiveModes ==
  {m \in {"draggingCanvas", "draggingItems", "resizingGroup", "resizing_node",
          "dragging_rectangle", "connecting_links"} :
     CASE m = "draggingCanvas" -> state.draggingCanvas
       [] m = "draggingItems" -> state.draggingItems
       [] m = "resizingGroup" -> resizingGroup # Null
       [] m = "resizing_node" -> resizing_node # Null
       [] m = "dragging_rectangle" -> dragging_rectangle # Null
       [] m = "connecting_links" -> connecting_links.set}

\* C37: at most one gesture mode is active at a time: no two of
\* draggingCanvas, draggingItems, resizingGroup, resizing_node,
\* dragging_rectangle and a non-null connecting_links are set together.
C37_OneGestureMode == Cardinality(ActiveModes) <= 1

\* items are dragged and the canvas pans in the same gesture
C37_Witness ==
  /\ pointer.isDown /\ pointer.dragStarted
  /\ ActiveModes = {"draggingCanvas", "draggingItems"}


\* C38: for any interleaving of startRendering, stopRendering and frame
\* callbacks at most one frame callback is pending at any time: a
\* stopRendering followed at once by startRendering does not leave two render
\* loops running.
C38_OneFramePending == display.pending <= 1

\* once rendering is stopped no step schedules a further frame: the
\* callbacks that still wait run and hand on nothing
C38_StoppedSchedulesNothing ==
  [][~display'.is_rendering => display'.pending <= display.pending]_vars

\* rendering has been stopped and started again before the frame callback
\* ran: two callbacks wait, and each will hand on the next
C38_Witness ==
  /\ lastOp = <<"startRendering", Null, "-">>
  /\ display.is_rendering
  /\ display.pending = 2


\* the gesture has started a resize of a node
NodeResizeDrag ==
  /\ ghost.dragKind = "resizeNode"
  /\ Count("onDragStart") = 1

\* C39: the graph.beforeChange issued when a node-resize drag starts is
\* matched by exactly one graph.afterChange by the end of that gesture,
\* whether the gesture ends by pointer up or by pointer-cancel.
C39_ResizeBracket ==
  (NodeResizeDrag /\ Ended) => (ghost.before = 1 /\ ghost.after = 1)

\* the resize bracket of a gesture that ends by pointer up
C39_ResizeBracketOnUp ==
  (NodeResizeDrag /\ ghost.ended = "up") => (ghost.before = 1 /\ ghost.after = 1)

\* a node-resize drag was started and cancelled: resizing_node is cleared,
\* graph.beforeChange was called and graph.afterChange was not
C39_Witness ==
  /\ NodeResizeDrag
  /\ ghost.ended = "cancel"
  /\ resizing_node = Null
  /\ ghost.before = 1 /\ ghost.after = 0


\* the step is the keyup of the space bar that ends a hold
SpaceReleased ==
  previously_dragging_canvas # "null" /\ previously_dragging_canvas' = "null"

\* C40: a space keydown, auto-repeated or not, followed by the matching
\* space keyup leaves state.readOnly equal to the value it had before the
\* first keydown.
C40_SpaceRestoresReadOnly ==
  [][SpaceReleased => state'.readOnly = readOnlyBefore]_vars

\* the same for a canvas that was not read-only before the first keydown
C40_SpaceRestoresEditable ==
  [][(SpaceReleased /\ ~readOnlyBefore) => state'.readOnly = readOnlyBefore]_vars

\* the space bar has been pressed and released on a canvas the host had
\* made read-only: the canvas is editable
C40_Witness ==
  /\ previously_dragging_canvas = "null"
  /\ readOnlyBefore
  /\ ~state.readOnly
  /\ lastOp = NoOp /\ ghost.gestures = 0

====
